---- MODULE Spec2Model ----
(***************************************************************************)
(* A model of the WopMars definition reader (Reader.py), of the rule       *)
(* entity (Rule.py) and of the session wrapper (WopMarsSession.py).        *)
(*                                                                         *)
(* A definition file is modelled by its text (a sequence of tokens, which  *)
(* check_duplicate_rules scans with its regular expression) and by the     *)
(* node tree the YAML parser builds from it (which the duplicate-key       *)
(* constructor and the grammar validator walk).                            *)
(***************************************************************************)
EXTENDS Integers, Sequences, FiniteSets, TLC

VARIABLES
    doc,                      \* the definition file given to the reader: its rule blocks
    seeded,                   \* whether the two Type rows ("input", "output") exist
    dict_workflow_definition, \* Reader.__dict_workflow_definition
    phase,                    \* "constructed" | "loaded" | "read": what the reader has done
    loadResult,               \* outcome of load_definition_file
    readResult,               \* outcome of read
    set_wrapper,              \* the rule entities read() has built, in order
    session_new,              \* pending objects of the session (session.new)
    db,                       \* committed rows of the store
    rules,                    \* rule entities the rule-level operations are applied to
    mtime,                    \* the file system: path -> time of last modification
    op,                       \* the last rule-level operation and what it returned
    fsize,                    \* the file system: path -> size of the file
    content,                  \* the models whose table holds at least one row
    workers,                  \* the workers: their sessions and where each of them is
    lock,                     \* the lock of the manager: 0, or the worker that holds it
    dry_run,                  \* OptionManager.instance()["--dry-run"]
    scheduler                 \* the scheduler: its status, its clock and its queues

readerVars == <<doc, seeded, dict_workflow_definition, phase, loadResult, readResult,
                set_wrapper, session_new>>
envVars == <<fsize, content, workers, lock, dry_run, scheduler>>
\* no scheduler at work
NoScheduler == [state |-> "INIT", clock |-> 0, ready_queue |-> <<>>, running |-> {},
                completed |-> {}, failed |-> {}]

envVarsButWorkers == <<fsize, content, lock, dry_run, scheduler>>
vars == <<readerVars, db, rules, mtime, op, envVars>>

-----------------------------------------------------------------------------
(* Tokens of the text of a definition file.                                *)

R  == "rule "     \* the keyword followed by one blank
C  == ":"
S  == " "
Q  == "'"         \* a quote character
NL == "\n"
BodyText == "..."  \* the indented lines of a rule block (no keyword, one token)

IsSpace(tok) == tok \in {R, S, NL}   \* the token ends with (or is) whitespace

-----------------------------------------------------------------------------
(* Nodes of a YAML tree: scalars and mappings.  A mapping keeps its        *)
(* (key, value) pairs in document order; before construction a key may     *)
(* occur twice.                                                            *)

Str(s)  == [t |-> "str",  v |-> s,  p |-> <<>>, kv |-> <<>>]
Num(s)  == [t |-> "int",  v |-> s,  p |-> <<>>, kv |-> <<>>]  \* an integer, by its digits
Bool(s) == [t |-> "bool", v |-> s,  p |-> <<>>, kv |-> <<>>]  \* true or false
Null    == [t |-> "null", v |-> "", p |-> <<>>, kv |-> <<>>]
Map(kv) == [t |-> "map",  v |-> "", p |-> <<>>, kv |-> kv]
\* a string scalar the model looks into: a rule key by its tokens, a path by
\* its segments (p); v only says that the string is not empty
Text(p) == [t |-> "str",  v |-> "text", p |-> p, kv |-> <<>>]

KeysOf(node) == [i \in 1..Len(node.kv) |-> node.kv[i][1]]
HasKey(node, k) == \E i \in 1..Len(node.kv) : node.kv[i][1] = k
Get(node, k) == node.kv[CHOOSE i \in 1..Len(node.kv) : node.kv[i][1] = k][2]

-----------------------------------------------------------------------------
(* Outcomes.  kind "ok" is a normal return; WopMarsException kinds are     *)
(* those of WopMarsKinds; every other kind is an exception of another      *)
(* class (TypeError, KeyError, ...).                                       *)

Ok == [kind |-> "ok", rule |-> <<>>, line |-> ""]
Err(k, rule, line) == [kind |-> k, rule |-> rule, line |-> line]

WopMarsKinds == {"FileNotFound", "DuplicateRule", "DuplicateKey", "GrammarViolation",
                 "ToolNotFound", "ContentViolation", "DatabaseNotSetUp"}
NotRun == [kind |-> "none", rule |-> <<>>, line |-> ""]

-----------------------------------------------------------------------------
(* Reader.check_duplicate_rules: re.findall(r'rule (.+?):', text) and the  *)
(* first name seen twice.                                                  *)

\* the end of the shortest match of "(.+?):" starting at token j (0 if none):
\* at least one token, none of them a newline, then a colon
RECURSIVE LazyEnd(_, _, _)
LazyEnd(text, j, k) ==
    IF k > Len(text) \/ text[k - 1] = NL THEN 0
    ELSE IF text[k] = C THEN k
    ELSE LazyEnd(text, j, k + 1)

RECURSIVE FindAllRules(_, _)
FindAllRules(text, i) ==
    IF i > Len(text) THEN <<>>
    ELSE IF text[i] # R \/ i + 1 > Len(text) THEN FindAllRules(text, i + 1)
    ELSE LET k == LazyEnd(text, i + 1, i + 2)
         IN IF k = 0 THEN FindAllRules(text, i + 1)
            ELSE <<SubSeq(text, i + 1, k - 1)>> \o FindAllRules(text, k + 1)

RECURSIVE SeenLoop(_, _)
SeenLoop(found, i) ==
    IF i > Len(found) THEN Ok
    ELSE IF \E j \in 1..(i - 1) : found[j] = found[i]
         THEN Err("DuplicateRule", found[i], "")
         ELSE SeenLoop(found, i + 1)

check_duplicate_rules(text) == SeenLoop(FindAllRules(text, 1), 1)

-----------------------------------------------------------------------------
(* The YAML parser on the header line of a rule block: the key it yields.  *)

RECURSIVE StripRight(_, _)
StripRight(s, toks) ==
    IF s # <<>> /\ s[Len(s)] \in toks THEN StripRight(SubSeq(s, 1, Len(s) - 1), toks)
    ELSE s

RECURSIVE StripLeft(_, _)
StripLeft(s, toks) ==
    IF s # <<>> /\ s[1] \in toks THEN StripLeft(SubSeq(s, 2, Len(s)), toks)
    ELSE s

\* a quoted key is the text between its quotes; a plain key is the text before
\* the mapping colon, without trailing blanks
YamlKey(header) ==
    IF header[1] = Q
    THEN LET close == CHOOSE k \in 2..Len(header) :
                         header[k] = Q /\ \A m \in 2..(k - 1) : header[m] # Q
         IN SubSeq(header, 2, close - 1)
    ELSE StripRight(SubSeq(header, 1, Len(header) - 1), {S})

\* the text of the file: each block's header line and its body lines
RECURSIVE Render(_)
Render(blocks) ==
    IF blocks = <<>> THEN <<>>
    ELSE blocks[1].header \o <<NL, BodyText, NL>> \o Render(Tail(blocks))

\* the tree the parser hands to the constructor: an empty file is null
RawTree(blocks) ==
    IF blocks = <<>> THEN Null
    ELSE Map([i \in 1..Len(blocks) |-> <<Text(YamlKey(blocks[i].header)), blocks[i].body>>])

-----------------------------------------------------------------------------
(* Reader.no_duplicates_constructor: builds the mapping pair by pair, the  *)
(* key and the value first (nested mappings are constructed, and checked,  *)
(* by the same constructor), then the test 'key in mapping'.               *)

\* the Python object a key node is constructed to, up to == and hash: a
\* boolean is the integer 1 or 0
PyKey(node) ==
    IF node.t = "bool" THEN Num(IF node.v = "true" THEN "1" ELSE "0") ELSE node

RECURSIVE no_duplicates_constructor(_)
RECURSIVE ConstructPairs(_, _)
ConstructPairs(kv, i) ==
    IF i > Len(kv) THEN Ok
    ELSE LET inner == no_duplicates_constructor(kv[i][2])
         IN IF inner.kind # "ok" THEN inner
            ELSE IF \E j \in 1..(i - 1) : PyKey(kv[j][1]) = PyKey(kv[i][1])
                 THEN Err("DuplicateKey", <<>>, "duplicate")
                 ELSE ConstructPairs(kv, i + 1)

no_duplicates_constructor(node) ==
    IF node.t = "map" THEN ConstructPairs(node.kv, 1) ELSE Ok

-----------------------------------------------------------------------------
(* Python's iteration and indexing on the values of a parsed tree.         *)

OneChar == "c"   \* a character of a non-empty string scalar

CanIter(node) == node.t \in {"map", "str"}     \* None and numbers are not iterable
Iter(node) ==
    IF node.t = "map" THEN KeysOf(node)
    ELSE IF node.v = "" THEN <<>> ELSE <<Str(OneChar)>>

-----------------------------------------------------------------------------
(* Reader.is_grammar_respected.  Each loop returns the outcome and the     *)
(* locals it leaves behind: tool (bool_toolwrapper) and sv (whether the    *)
(* local s_variable_name has been assigned).                               *)

\* regex_step1 = ^rule [^\s]+$  ('$' also matches before a final newline)
regex_step1(key) ==
    LET k == IF key # <<>> /\ key[Len(key)] = NL THEN SubSeq(key, 1, Len(key) - 1) ELSE key
    IN /\ Len(k) >= 2
       /\ k[1] = R
       /\ \A i \in 2..Len(k) : ~IsSpace(k[i])

\* regex_step2 = (^params$)|(^tool$)|(^input$)|(^output$)
regex_step2(s) == s \in {"params", "tool", "input", "output"}

\* regex_step3 = (^files$)|(^tables$)
regex_step3(s) == s \in {"files", "tables"}

GState(res, tool, sv) == [res |-> res, tool |-> tool, sv |-> sv]

RECURSIVE FilesLoop(_, _, _, _)
FilesLoop(rule, files, names, i) ==
    IF i > Len(names) THEN GState(Ok, FALSE, i > 1)
    ELSE IF files.t = "str" THEN GState(Err("TypeError", <<>>, "str index"), FALSE, TRUE)
    ELSE IF Get(files, names[i]).t # "str"
         THEN GState(Err("GrammarViolation", rule, names[i].v), FALSE, TRUE)
         ELSE FilesLoop(rule, files, names, i + 1)

RECURSIVE TablesLoop(_, _, _, _)
TablesLoop(rule, names, i, sv) ==
    IF i > Len(names) THEN GState(Ok, FALSE, sv)
    ELSE IF names[i].t # "str"
         THEN IF sv THEN GState(Err("GrammarViolation", rule, names[i].v), FALSE, sv)
                    ELSE GState(Err("UnboundLocalError", <<>>, "s_variable_name"), FALSE, sv)
         ELSE TablesLoop(rule, names, i + 1, sv)

RECURSIVE Step3Loop(_, _, _, _, _)
Step3Loop(rule, io, keys, i, sv) ==
    IF i > Len(keys) THEN GState(Ok, FALSE, sv)
    ELSE IF keys[i].t # "str" THEN GState(Err("TypeError", <<>>, "regex"), FALSE, sv)
    ELSE IF ~regex_step3(keys[i].v)
         THEN GState(Err("GrammarViolation", rule, keys[i].v), FALSE, sv)
    ELSE LET inner == Get(io, keys[i])
         IN IF ~CanIter(inner) THEN GState(Err("TypeError", <<>>, "not iterable"), FALSE, sv)
            ELSE LET r == IF keys[i].v = "files"
                          THEN LET f == FilesLoop(rule, inner, Iter(inner), 1)
                               IN GState(f.res, FALSE, sv \/ f.sv)
                          ELSE TablesLoop(rule, Iter(inner), 1, sv)
                 IN IF r.res.kind # "ok" THEN r
                    ELSE Step3Loop(rule, io, keys, i + 1, r.sv)

RECURSIVE Step2Loop(_, _, _, _, _, _)
Step2Loop(rule, body, keys, i, tool, sv) ==
    IF i > Len(keys) THEN GState(Ok, tool, sv)
    ELSE IF keys[i].t # "str" THEN GState(Err("TypeError", <<>>, "regex"), tool, sv)
    ELSE IF ~regex_step2(keys[i].v)
         THEN GState(Err("GrammarViolation", rule, keys[i].v), tool, sv)
    ELSE IF keys[i].v \in {"input", "output"}
         THEN LET io == Get(body, keys[i])
              IN IF ~CanIter(io) THEN GState(Err("TypeError", <<>>, "not iterable"), tool, sv)
                 ELSE LET r == Step3Loop(rule, io, Iter(io), 1, sv)
                      IN IF r.res.kind # "ok" THEN r
                         ELSE Step2Loop(rule, body, keys, i + 1, tool, r.sv)
    ELSE IF keys[i].v = "tool"
         THEN IF tool THEN GState(Err("GrammarViolation", rule, "multiple tools"), tool, sv)
                      ELSE Step2Loop(rule, body, keys, i + 1, TRUE, sv)
    ELSE Step2Loop(rule, body, keys, i + 1, tool, sv)

RECURSIVE Step1Loop(_, _, _, _)
Step1Loop(def, keys, i, sv) ==
    IF i > Len(keys) THEN Ok
    ELSE IF ~regex_step1(keys[i].p) THEN Err("GrammarViolation", keys[i].p, "")
    ELSE LET body == Get(def, keys[i])
         IN IF ~CanIter(body) THEN Err("TypeError", <<>>, "not iterable")
            ELSE LET r == Step2Loop(keys[i].p, body, Iter(body), 1, FALSE, sv)
                 IN IF r.res.kind # "ok" THEN r.res
                    ELSE IF ~r.tool THEN Err("GrammarViolation", keys[i].p, "no tool")
                    ELSE Step1Loop(def, keys, i + 1, r.sv)

is_grammar_respected(def) ==
    IF def.t # "map" THEN Err("TypeError", <<>>, "not iterable")
    ELSE Step1Loop(def, KeysOf(def), 1, FALSE)

-----------------------------------------------------------------------------
(* Rule entities.  A rule carries its descriptors in lists (the ORM        *)
(* relationships files, tables, options) and the declarations of its       *)
(* class (the specify_* methods of the tool wrapper).                      *)

None == -1   \* None in a column that holds a time or a size

Unset == -2  \* an attribute that no statement has assigned yet

\* status = Column(String(255), nullable=True, default="NOT_EXECUTED")
DefaultStatus == "NOT_EXECUTED"

\* the transient states of a rule
Rule_NEW == 1   \* Rule.NEW (NEW is a reserved word)
READY == 2
NOT_READY == 3

File(name, path, type) ==
    [name |-> name, path |-> path, type |-> type, mtime_epoch_millis |-> None,
     used_at |-> None, size |-> None]
Table(tablename, model, type) ==
    [tablename |-> tablename, model |-> model, type |-> type, used_at |-> None]
Option(name, value) == [name |-> name, value |-> value]

Decl(inf, outf, intab, outtab, params) ==
    [input_file |-> inf, output_file |-> outf,
     input_table |-> intab, output_table |-> outtab, params |-> params]

Range(seq) == {seq[i] : i \in 1..Len(seq)}
Select(seq, type) == SelectSeq(seq, LAMBDA x : x.type = type)

\* the wrappers of the source tree, and the example of is_options_respected
FooWrapper6 == Decl(<<"input1">>, <<"output1", "output2">>, <<>>, <<>>, <<>>)
Query == Decl(<<>>, <<>>, <<"FooBase">>, <<>>, <<>>)
Example == Decl(<<>>, <<>>, <<>>, <<>>,
                <<<<"option1", <<"int">>>>, <<"option2", <<"required", "str">>>>>>)

Registry == {"FooWrapper6", "Query", "Example"}
DeclOf(tool) ==
    CASE tool = "FooWrapper6" -> FooWrapper6
      [] tool = "Query" -> Query
      [] OTHER -> Example

\* the __tablename__ of the model class a table descriptor refers to
ModelTablename(model) ==
    CASE model = "FooBase" -> "FooBase"
      [] model = "FooBase2" -> "FooBase2"
      [] OTHER -> "other_table"

-----------------------------------------------------------------------------
(* Rule.is_input_respected, is_output_respected, is_options_respected and  *)
(* is_content_respected.  The outcome names the rule when the message of   *)
(* the exception does.                                                     *)

FileNames(r, type) == {f.name : f \in Range(Select(r.files, type))}
TableNames(r, type) == {t.tablename : t \in Range(Select(r.tables, type))}

is_input_respected(r) ==
    IF FileNames(r, "input") # Range(r.decl.input_file)
    THEN Err("ContentViolation", r.name, "input files")
    ELSE IF TableNames(r, "input") # Range(r.decl.input_table)
    THEN Err("ContentViolation", r.name, "input tables")
    ELSE IF \E t \in Range(Select(r.tables, "input")) :
               \/ t.tablename \notin Range(r.decl.input_table)
               \/ ModelTablename(t.model) \notin Range(r.decl.input_table)
    THEN Err("ContentViolation", r.name, "input tablename")
    ELSE Ok

\* is_output_respected as the older ToolWrapper had it: the file names only
is_output_respected_files_only(r) ==
    IF FileNames(r, "output") # Range(r.decl.output_file)
    THEN Err("ContentViolation", r.name, "output files")
    ELSE Ok

is_output_respected(r) ==
    IF FileNames(r, "output") # Range(r.decl.output_file)
    THEN Err("ContentViolation", r.name, "output files")
    ELSE IF TableNames(r, "output") # Range(r.decl.output_table)
    THEN Err("ContentViolation", r.name, "output tables")
    ELSE IF \E t \in Range(Select(r.tables, "output")) :
               t.tablename \notin Range(r.decl.output_table)
    THEN Err("ContentViolation", r.name, "output tablename")
    ELSE Ok

\* str(spec).lower() of one word of a type spec
Lower(word) == IF word \in {"Required", "REQUIRED"} THEN "required" ELSE word
IsRequired(typespec) == \E i \in 1..Len(typespec) : Lower(typespec[i]) = "required"

DeclaredNames(r) == {r.decl.params[i][1] : i \in 1..Len(r.decl.params)}
TypeOf(r, name) ==
    r.decl.params[CHOOSE i \in 1..Len(r.decl.params) : r.decl.params[i][1] = name][2]
OptionNames(r) == {o.name : o \in Range(r.options)}

\* Option.correspond: the value has one of the types of the spec
correspond(value, typespec) ==
    \E i \in 1..Len(typespec) : typespec[i] = value.t

\* is_options_respected without the loop over the required options
is_options_respected_no_required(r) ==
    IF ~(OptionNames(r) \subseteq DeclaredNames(r))
    THEN Err("ContentViolation", r.name, "options")
    ELSE IF \E o \in Range(r.options) : ~correspond(o.value, TypeOf(r, o.name))
    THEN Err("ContentViolation", <<>>, "option type")
    ELSE Ok

is_options_respected(r) ==
    IF ~(OptionNames(r) \subseteq DeclaredNames(r))
    THEN Err("ContentViolation", r.name, "options")
    ELSE IF \E o \in Range(r.options) : ~correspond(o.value, TypeOf(r, o.name))
    THEN Err("ContentViolation", <<>>, "option type")
    ELSE IF \E n \in DeclaredNames(r) : IsRequired(TypeOf(r, n)) /\ n \notin OptionNames(r)
    THEN Err("ContentViolation", <<>>, "required option")
    ELSE Ok

is_content_respected(r) ==
    IF is_options_respected(r).kind # "ok" THEN is_options_respected(r)
    ELSE IF is_input_respected(r).kind # "ok" THEN is_input_respected(r)
    ELSE is_output_respected(r)

-----------------------------------------------------------------------------
(* Paths: sequences of segments; the first segment of an absolute path is  *)
(* "/".  os.path.join and os.path.abspath on them.                         *)

Directory == <<"/", "d">>     \* OptionManager.instance()["--directory"]

Join(dir, p) == IF p # <<>> /\ p[1] = "/" THEN p ELSE dir \o p
Abspath(p) == SelectSeq(p, LAMBDA seg : seg # ".")

\* the model identifier a table descriptor stores
ModelId(node) == IF node.t = "str" THEN node.v ELSE "not a string"

-----------------------------------------------------------------------------
(* The session (WopMarsSession over the ORM session) and the store.        *)

NoPending == [rules |-> {}, modification |-> {}]
EmptyDb == [rules |-> {}, modification |-> {}]

Sess(new, store) == [new |-> new, db |-> store]

something(new) == new.rules # {} \/ new.modification # {}

commit(st) ==
    IF something(st.new)
    THEN Sess(NoPending, [rules |-> st.db.rules \cup st.new.rules,
                          modification |-> st.db.modification \cup st.new.modification])
    ELSE st

rollback(st) == Sess(NoPending, st.db)

add_all(st, entities) == Sess([st.new EXCEPT !.rules = @ \cup entities], st.db)

Now == 0   \* datetime.fromtimestamp(time.time()) of the binding

\* get_or_create without the query: the row is created whatever the store holds
get_or_create_always(st, name) ==
    [st |-> Sess([st.new EXCEPT !.modification =
                     @ \cup {[table_name |-> name, date |-> Now]}], st.db),
     created |-> TRUE]

\* WopMarsSession.get_or_create(ModificationTable, defaults={"date": now},
\* table_name=name): the query sees the committed and the pending rows
get_or_create(st, name) ==
    IF \E m \in st.db.modification \cup st.new.modification : m.table_name = name
    THEN [st |-> st, created |-> FALSE]
    ELSE [st |-> Sess([st.new EXCEPT !.modification =
                          @ \cup {[table_name |-> name, date |-> Now]}], st.db),
          created |-> TRUE]

-----------------------------------------------------------------------------
(* Reader.read, the walk over one rule block (lines 260-307): the         *)
(* descriptors of the block and the name of its wrapper.                   *)

NoElm == [wrapper |-> Null, in_files |-> <<>>, in_tables |-> <<>>,
          out_files |-> <<>>, out_tables |-> <<>>, params |-> <<>>]

PState(res, acc) == [res |-> res, acc |-> acc]

Store(acc, key2, key3, obj) ==
    CASE key2 = "input"  /\ key3 = "files"  -> [acc EXCEPT !.in_files = Append(@, obj)]
      [] key2 = "input"  /\ key3 = "tables" -> [acc EXCEPT !.in_tables = Append(@, obj)]
      [] key2 = "output" /\ key3 = "files"  -> [acc EXCEPT !.out_files = Append(@, obj)]
      [] OTHER                              -> [acc EXCEPT !.out_tables = Append(@, obj)]

RECURSIVE Key4Loop(_, _, _, _, _, _)
Key4Loop(key2, key3, inner, keys, i, acc) ==
    IF i > Len(keys) THEN PState(Ok, acc)
    ELSE IF key3 \in {"files", "tables"} /\ inner.t = "str"
         THEN PState(Err("TypeError", <<>>, "str index"), acc)
    ELSE IF key3 = "files" /\ Get(inner, keys[i]).t # "str"
         THEN PState(Err("TypeError", <<>>, "join"), acc)
    ELSE IF key2 \notin {"input", "output"} \/ key3 \notin {"files", "tables"}
         THEN PState(Err("KeyError", <<>>, "dict_dict_dict_elm"), acc)
    ELSE LET type == IF key2 = "input" THEN "input" ELSE "output"
             obj == IF key3 = "files"
                    THEN File(keys[i].v, Abspath(Join(Directory, Get(inner, keys[i]).p)), type)
                    ELSE Table(keys[i].v, ModelId(Get(inner, keys[i])), type)
         IN Key4Loop(key2, key3, inner, keys, i + 1, Store(acc, key2, key3, obj))

RECURSIVE Key3Loop(_, _, _, _, _)
Key3Loop(key2, val, keys, i, acc) ==
    IF i > Len(keys) THEN PState(Ok, acc)
    ELSE IF key2 = "params"
         THEN Key3Loop(key2, val, keys, i + 1,
                       [acc EXCEPT !.params = Append(@, Option(keys[i].v, Get(val, keys[i])))])
    ELSE LET inner == Get(val, keys[i])
         IN IF ~CanIter(inner) THEN PState(Err("TypeError", <<>>, "not iterable"), acc)
            ELSE LET r == Key4Loop(key2, keys[i].v, inner, Iter(inner), 1, acc)
                 IN IF r.res.kind # "ok" THEN r
                    ELSE Key3Loop(key2, val, keys, i + 1, r.acc)

RECURSIVE Key2Loop(_, _, _, _)
Key2Loop(body, keys, i, acc) ==
    IF i > Len(keys) THEN PState(Ok, acc)
    ELSE LET val == Get(body, keys[i])
         IN IF val.t = "map"
            THEN LET r == Key3Loop(keys[i].v, val, KeysOf(val), 1, acc)
                 IN IF r.res.kind # "ok" THEN r
                    ELSE Key2Loop(body, keys, i + 1, r.acc)
            ELSE Key2Loop(body, keys, i + 1, [acc EXCEPT !.wrapper = val])

\* rule.split()[-1].strip(":"): the last word of the key without its colons
RECURSIVE WordAtEnd(_)
WordAtEnd(key) ==
    IF key = <<>> \/ IsSpace(key[Len(key)]) THEN <<>>
    ELSE WordAtEnd(SubSeq(key, 1, Len(key) - 1)) \o <<key[Len(key)]>>

\* split()[-1]: the keyword itself when nothing follows it
LastWord(key) ==
    IF key # <<>> /\ key[Len(key)] = R THEN <<"rule">> ELSE WordAtEnd(key)

str_rule_name(key) ==
    StripLeft(StripRight(LastWord(StripRight(key, {S, NL})), {C}), {C})

-----------------------------------------------------------------------------
(* Reader.create_toolwrapper_entry: the import of the wrapper, then the    *)
(* descriptors appended to the new entity.  Each table commits the         *)
(* session and gets or creates the row of the table in the ledger.         *)

importable(wrapper) == wrapper.t = "str" /\ wrapper.v \in Registry

import_error(wrapper) ==
    IF wrapper.t # "str" THEN Err("TypeError", <<>>, "import_module")
    ELSE IF wrapper.v = "" THEN Err("ValueError", <<>>, "Empty module name")
    ELSE Err("ToolNotFound", <<>>, wrapper.v)

\* create_toolwrapper_entry without the get_or_create of the ledger row
BindNoTables(st, tables, i) == st

RECURSIVE BindTables(_, _, _)
BindTables(st, tables, i) ==
    IF i > Len(tables) THEN st
    ELSE BindTables(get_or_create(commit(st), tables[i].tablename).st, tables, i + 1)

create_toolwrapper_entry(st, id, name, acc) ==
    IF ~importable(acc.wrapper) THEN [res |-> import_error(acc.wrapper), st |-> st, rule |-> Null]
    ELSE [res |-> Ok,
          st |-> BindTables(BindTables(st, acc.in_tables, 1), acc.out_tables, 1),
          rule |-> [id |-> id, name |-> name, toolwrapper |-> acc.wrapper.v, state |-> Rule_NEW,
                    started_at |-> Unset, finished_at |-> Unset, time |-> Unset,
                    status |-> DefaultStatus,
                    decl |-> DeclOf(acc.wrapper.v),
                    files |-> acc.in_files \o acc.out_files,
                    tables |-> acc.in_tables \o acc.out_tables,
                    options |-> acc.params]]

-----------------------------------------------------------------------------
(* Reader.load_definition_file: the outcome, and the tree it assigns to    *)
(* __dict_workflow_definition (assigned is FALSE when it raises before).   *)

Loaded(res, assigned, def) == [res |-> res, assigned |-> assigned, def |-> def]

load_definition_file(file) ==
    IF ~file.exists THEN Loaded(Err("FileNotFound", <<>>, ""), FALSE, Null)
    ELSE IF check_duplicate_rules(Render(file.blocks)).kind # "ok"
         THEN Loaded(check_duplicate_rules(Render(file.blocks)), FALSE, Null)
    ELSE IF no_duplicates_constructor(RawTree(file.blocks)).kind # "ok"
         THEN Loaded(no_duplicates_constructor(RawTree(file.blocks)), FALSE, Null)
    ELSE Loaded(is_grammar_respected(RawTree(file.blocks)), TRUE, RawTree(file.blocks))

-----------------------------------------------------------------------------
(* Reader.read after the load: the loop over the rule blocks, then the     *)
(* commit of the entities and the content checks.                          *)

RState(res, st, wrappers) == [res |-> res, st |-> st, wrappers |-> wrappers]

\* the loop over the rule blocks without the re-initialisation of
\* dict_dict_dict_elm: a block inherits what the blocks before it declared
RECURSIVE RuleLoopCarry(_, _, _, _, _, _)
RuleLoopCarry(def, keys, i, st, wrappers, acc) ==
    IF i > Len(keys) THEN RState(Ok, st, wrappers)
    ELSE LET body == Get(def, keys[i])
             walk == Key2Loop(body, KeysOf(body), 1, acc)
         IN IF walk.res.kind # "ok" THEN RState(walk.res, st, wrappers)
            ELSE LET e == create_toolwrapper_entry(st, i, str_rule_name(keys[i].p), walk.acc)
                 IN IF e.res.kind # "ok" THEN RState(e.res, e.st, wrappers)
                    ELSE RuleLoopCarry(def, keys, i + 1, rollback(commit(e.st)),
                                       Append(wrappers, e.rule), walk.acc)

RuleLoopShared(def, keys, i, st, wrappers) == RuleLoopCarry(def, keys, i, st, wrappers, NoElm)

RECURSIVE RuleLoop(_, _, _, _, _)
RuleLoop(def, keys, i, st, wrappers) ==
    IF i > Len(keys) THEN RState(Ok, st, wrappers)
    ELSE LET body == Get(def, keys[i])
             walk == Key2Loop(body, KeysOf(body), 1, NoElm)
         IN IF walk.res.kind # "ok" THEN RState(walk.res, st, wrappers)
            ELSE LET e == create_toolwrapper_entry(st, i, str_rule_name(keys[i].p), walk.acc)
                 IN IF e.res.kind # "ok" THEN RState(e.res, e.st, wrappers)
                    ELSE RuleLoop(def, keys, i + 1, rollback(commit(e.st)),
                                  Append(wrappers, e.rule))

\* lines 243-341: everything before the content checks
bind(def, isSeeded, st) ==
    IF ~isSeeded THEN RState(Err("DatabaseNotSetUp", <<>>, "NoResultFound"), rollback(st), <<>>)
    ELSE LET loop == RuleLoop(def, KeysOf(def), 1, st, <<>>)
         IN IF loop.res.kind # "ok" THEN loop
            ELSE RState(Ok,
                        commit(add_all(rollback(commit(loop.st)), Range(loop.wrappers))),
                        loop.wrappers)

\* lines 342-343: the first entity of set_wrapper (a set: any order) that
\* is_content_respected rejects
ContentOutcomes(wrappers) ==
    IF \A i \in 1..Len(wrappers) : is_content_respected(wrappers[i]).kind = "ok"
    THEN {Ok}
    ELSE {is_content_respected(wrappers[i]) :
             i \in {j \in 1..Len(wrappers) : is_content_respected(wrappers[j]).kind # "ok"}}

-----------------------------------------------------------------------------
(* Reader.load_one_toolwrapper: the rule of the 'tool' command, built from *)
(* the name of the wrapper and the dicts of its inputs, outputs and        *)
(* params.                                                                 *)

\* for type in dict_inputs (lines 174-187; 188-201 for the outputs): the
\* keys "files" and "tables" are walked, any other key is passed over
RECURSIVE TypeLoop(_, _, _, _, _)
TypeLoop(key2, dict, keys, i, acc) ==
    IF i > Len(keys) THEN PState(Ok, acc)
    ELSE IF keys[i].t = "str" /\ keys[i].v \in {"files", "tables"}
    THEN LET inner == Get(dict, keys[i])
         IN IF ~CanIter(inner) THEN PState(Err("TypeError", <<>>, "not iterable"), acc)
            ELSE LET r == Key4Loop(key2, keys[i].v, inner, Iter(inner), 1, acc)
                 IN IF r.res.kind # "ok" THEN r
                    ELSE TypeLoop(key2, dict, keys, i + 1, r.acc)
    ELSE TypeLoop(key2, dict, keys, i + 1, acc)

\* for s_param in dict_params (lines 202-206)
ParamLoop(dict, acc) ==
    [acc EXCEPT !.params = [i \in 1..Len(KeysOf(dict)) |->
                               Option(KeysOf(dict)[i].v, Get(dict, KeysOf(dict)[i]))]]

\* the outcome, the session and the rule entity (<<>> when none was built)
load_one_toolwrapper(tool, inputs, outputs, params, isSeeded, st) ==
    IF ~isSeeded THEN RState(Err("DatabaseNotSetUp", <<>>, "NoResultFound"), rollback(st), <<>>)
    ELSE LET ins == TypeLoop("input", inputs, KeysOf(inputs), 1, [NoElm EXCEPT !.wrapper = tool])
         IN IF ins.res.kind # "ok" THEN RState(ins.res, st, <<>>)
            ELSE LET outs == TypeLoop("output", outputs, KeysOf(outputs), 1, ins.acc)
                 IN IF outs.res.kind # "ok" THEN RState(outs.res, st, <<>>)
                    ELSE LET e == create_toolwrapper_entry(st, 1, <<"rule_", tool.v>>,
                                                           ParamLoop(params, outs.acc))
                         IN IF e.res.kind # "ok" THEN RState(e.res, e.st, <<>>)
                            ELSE RState(is_content_respected(e.rule),
                                        rollback(commit(rollback(commit(add_all(e.st, {e.rule}))))),
                                        <<e.rule>>)

-----------------------------------------------------------------------------
(* The definition files the reader is given.                               *)

KV(k, v) == <<Str(k), v>>
Tool(t) == KV("tool", Str(t))
Files(kv) == KV("files", Map(kv))
Tables(kv) == KV("tables", Map(kv))

P1    == Text(<<"f1">>)
P1dot == Text(<<".", "f1">>)
P1abs == Text(<<"/", "d", "f1">>)
P2    == Text(<<"f2">>)
P3    == Text(<<"f3">>)

Out6 == KV("output", Map(<<Files(<<KV("output1", P2), KV("output2", P3)>>)>>))
In6(name, path) == KV("input", Map(<<Files(<<KV(name, path)>>)>>))
InTable(name, model) == KV("input", Map(<<Tables(<<KV(name, model)>>)>>))

\* well-formed rule bodies: bound, or rejected by the import or the content checks
GoodBodies ==
    { Map(<<Tool("FooWrapper6"), In6("input1", P1), Out6>>),
      Map(<<In6("input1", P1dot), Out6, Tool("FooWrapper6")>>),
      Map(<<Tool("FooWrapper6"), In6("input1", P1abs), Out6>>),
      Map(<<Tool("FooWrapper6"), In6("input2", P1), Out6>>),
      Map(<<Tool("FooWrapper6"), In6("input1", P2)>>),
      Map(<<Tool("FooWrapper6")>>),
      Map(<<Tool("Query"), InTable("FooBase", Str("FooBase"))>>),
      Map(<<Tool("Query"), InTable("FooBase", Str("Renamed"))>>),
      Map(<<Tool("Query"), InTable("FooBase", Str("FooBase")),
            KV("output", Map(<<Tables(<<KV("FooBase2", Str("FooBase2"))>>)>>))>>),
      Map(<<Tool("Example"), KV("params", Map(<<KV("option2", Str("v"))>>))>>),
      Map(<<Tool("Example"), KV("params", Map(<<KV("option1", Num("5")), KV("option2", Str("v"))>>))>>),
      Map(<<Tool("Example"), KV("params", Map(<<KV("option1", Str("x")), KV("option2", Str("v"))>>))>>),
      Map(<<Tool("Example"), KV("params", Map(<<KV("option3", Str("v")), KV("option2", Str("v"))>>))>>),
      Map(<<Tool("Example")>>),
      Map(<<Tool("Example"), In6("input1", P1)>>),
      Map(<<Tool("Nope")>>) }

\* bodies with a repeated key, at each level
DuplicateBodies ==
    { Map(<<Tool("Query"), Tool("FooWrapper6")>>),
      Map(<<Tool("FooWrapper6"), In6("input1", P1), In6("input1", P2)>>),
      Map(<<Tool("FooWrapper6"), KV("input", Map(<<Files(<<KV("input1", P1)>>), Files(<<KV("input1", P2)>>)>>))>>),
      Map(<<Tool("FooWrapper6"), KV("input", Map(<<Files(<<KV("input1", P1), KV("input1", P2)>>)>>))>>),
      Map(<<Tool("Example"), KV("params", Map(<<KV("option2", Str("v")), KV("option2", Str("w"))>>))>>) }

\* bodies off the grammar
OddBodies ==
    { Null,
      Str(""),
      Str("abc"),
      Num("5"),
      Map(<<>>),
      Map(<<In6("input1", P1)>>),
      Map(<<Tool("FooWrapper6"), KV("foo", Str("x"))>>),
      Map(<<KV("foo", Str("x")), Tool("FooWrapper6")>>),
      Map(<<<<Num("7"), Str("x")>>, Tool("FooWrapper6")>>),
      Map(<<Tool("FooWrapper6"), KV("input", Map(<<KV("bar", Map(<<KV("input1", P1)>>))>>))>>),
      Map(<<Tool("FooWrapper6"), KV("input", Map(<<<<Num("7"), Map(<<>>)>>>>))>>),
      Map(<<Tool("FooWrapper6"), KV("input", Null)>>),
      Map(<<Tool("FooWrapper6"), KV("input", Num("5"))>>),
      Map(<<Tool("FooWrapper6"), KV("input", Str("abc"))>>),
      Map(<<Tool("FooWrapper6"), KV("input", Str(""))>>),
      Map(<<Tool("FooWrapper6"), KV("output", Map(<<KV("files", Null)>>))>>),
      Map(<<Tool("FooWrapper6"), KV("input", Map(<<KV("files", Str("abc"))>>))>>),
      Map(<<Tool("FooWrapper6"), KV("input", Map(<<Files(<<KV("input1", Num("5"))>>)>>))>>),
      Map(<<Tool("FooWrapper6"), KV("input", Map(<<Files(<<KV("input1", Map(<<>>))>>)>>))>>),
      Map(<<Tool("Query"), KV("input", Map(<<KV("tables", Str("abc"))>>))>>),
      Map(<<Tool("Query"), KV("input", Map(<<Tables(<<<<Num("5"), Str("FooBase")>>>>)>>))>>),
      Map(<<Tool("Query"), KV("input", Map(<<Files(<<KV("input1", P1)>>),
                                            Tables(<<<<Num("5"), Str("FooBase")>>>>)>>))>>),
      Map(<<Tool("Query"), InTable("FooBase", Num("5"))>>),
      Map(<<KV("tool", Map(<<KV("x", Str("y"))>>))>>),
      Map(<<KV("tool", Map(<<>>))>>),
      Map(<<KV("tool", Num("5"))>>),
      Map(<<KV("tool", Null)>>),
      Map(<<KV("tool", Str(""))>>),
      Map(<<Tool("Query"), InTable("FooBase", Str("FooBase")), KV("params", Str("Example"))>>),
      Map(<<Tool("Example"), KV("params", Null)>>),
      Map(<<Tool("Example"), KV("params", Map(<<<<Num("1"), Str("x")>>, <<Bool("true"), Str("y")>>>>))>>) }

Bodies == GoodBodies \cup DuplicateBodies \cup OddBodies

\* header lines: "rule a:", "rule b:", "rule a :", "rule :a:", "'rule a:':",
\* "'rule a':", "a:", "rule a b:"
RuleA == <<R, "a", C>>
RuleB == <<R, "b", C>>
Headers ==
    { RuleA, RuleB, <<R, "a", S, C>>, <<R, C, "a", C>>, <<Q, R, "a", C, Q, C>>,
      <<Q, R, "a", Q, C>>, <<"a", C>>, <<R, "a", S, "b", C>> }

Block(h, b) == [header |-> h, body |-> b]

SecondBodies ==
    { Map(<<Tool("FooWrapper6"), In6("input1", P1), Out6>>),
      Map(<<Tool("FooWrapper6"), In6("input2", P1), Out6>>),
      Map(<<Tool("Query"), InTable("FooBase", Str("FooBase"))>>),
      Map(<<Tool("Nope")>>),
      Null }

FirstBodies ==
    { Map(<<Tool("FooWrapper6"), In6("input1", P1), Out6>>),
      Map(<<Tool("FooWrapper6"), In6("input2", P1), Out6>>),
      Map(<<Tool("Query"), InTable("FooBase", Str("FooBase"))>>) }

Blocks ==
    {<<>>}
    \cup {<<Block(RuleA, b)>> : b \in Bodies}
    \cup {<<Block(h, b)>> : h \in Headers, b \in SecondBodies}
    \cup {<<Block(RuleA, b1), Block(h2, b2)>> :
             b1 \in FirstBodies, h2 \in Headers, b2 \in SecondBodies}

Docs == {[exists |-> TRUE, blocks |-> b] : b \in Blocks}
        \cup {[exists |-> FALSE, blocks |-> <<>>]}

-----------------------------------------------------------------------------
(* The reader as a state machine.                                          *)

\* no file sizes, no table rows, no workers
EnvIdle ==
    fsize = <<>> /\ content = {} /\ workers = <<>> /\ lock = 0 /\ dry_run = FALSE
    /\ scheduler = NoScheduler

NoOp == [name |-> "none", self |-> 0, other |-> 0, res |-> NotRun, value |-> FALSE]

\* the tables earlier runs may have left in the ledger
LedgerRows == {[table_name |-> n, date |-> Now - 1] : n \in {"FooBase", "FooBase2"}}

\* Reader() (line 58) for one definition file, on a store without rule rows
Init ==
    /\ doc \in Docs
    /\ seeded \in BOOLEAN
    /\ dict_workflow_definition = Null
    /\ phase = "constructed"
    /\ loadResult = NotRun
    /\ readResult = NotRun
    /\ set_wrapper = <<>>
    /\ session_new = NoPending
    /\ db \in {[rules |-> {}, modification |-> m] : m \in SUBSET LedgerRows}
    /\ rules = <<>>
    /\ mtime = <<>>
    /\ op = NoOp
    /\ EnvIdle

\* Reader.load_definition_file(doc)
LoadDefinitionFile ==
    /\ phase = "constructed"
    /\ LET l == load_definition_file(doc)
       IN /\ loadResult' = l.res
          /\ dict_workflow_definition' = IF l.assigned THEN l.def ELSE dict_workflow_definition
    /\ phase' = "loaded"
    /\ UNCHANGED <<doc, seeded, readResult, set_wrapper, session_new, db, rules, mtime, op, envVars>>

\* Reader.read(doc)
Read ==
    /\ phase = "constructed"
    /\ LET l == load_definition_file(doc)
       IN /\ loadResult' = l.res
          /\ dict_workflow_definition' = IF l.assigned THEN l.def ELSE dict_workflow_definition
          /\ IF l.res.kind # "ok"
             THEN /\ readResult' = l.res
                  /\ UNCHANGED <<set_wrapper, session_new, db>>
             ELSE LET b == bind(l.def, seeded, Sess(session_new, db))
                  IN /\ set_wrapper' = b.wrappers
                     /\ session_new' = b.st.new
                     /\ db' = b.st.db
                     /\ IF b.res.kind # "ok"
                        THEN readResult' = b.res
                        ELSE readResult' \in ContentOutcomes(b.wrappers)
    /\ phase' = "read"
    /\ UNCHANGED <<doc, seeded, rules, mtime, op, envVars>>

Next ==
    \/ LoadDefinitionFile
    \/ Read

Spec == Init /\ [][Next]_vars

-----------------------------------------------------------------------------
(* Rule.follows: two nested loops over the input paths of self and the     *)
(* output paths of other, then the same over the table models.             *)

Paths(r, type) == [i \in 1..Len(Select(r.files, type)) |-> Select(r.files, type)[i].path]
Models(r, type) == [i \in 1..Len(Select(r.tables, type)) |-> Select(r.tables, type)[i].model]
Tablenames(r, type) == [i \in 1..Len(Select(r.tables, type)) |-> Select(r.tables, type)[i].tablename]

RECURSIVE InnerLoop(_, _, _)
InnerLoop(x, ys, j) ==
    IF j > Len(ys) THEN FALSE
    ELSE IF x = ys[j] THEN TRUE
    ELSE InnerLoop(x, ys, j + 1)

RECURSIVE OuterLoop(_, _, _)
OuterLoop(xs, ys, i) ==
    IF i > Len(xs) THEN FALSE
    ELSE IF InnerLoop(xs[i], ys, 1) THEN TRUE
    ELSE OuterLoop(xs, ys, i + 1)

\* follows that looks at the files and never at the tables
follows_files_only(self, other) ==
    OuterLoop(Paths(self, "input"), Paths(other, "output"), 1)

\* follows with the tables compared by tablename instead of model
follows_by_tablename(self, other) ==
    IF OuterLoop(Paths(self, "input"), Paths(other, "output"), 1) THEN TRUE
    ELSE OuterLoop(Tablenames(self, "input"), Tablenames(other, "output"), 1)

follows(self, other) ==
    IF OuterLoop(Paths(self, "input"), Paths(other, "output"), 1) THEN TRUE
    ELSE OuterLoop(Models(self, "input"), Models(other, "output"), 1)

-----------------------------------------------------------------------------
(* Rule.is_output_more_recent_than_input.  The times of the files come     *)
(* from os_path_getmtime_ms, a name Rule.py neither imports nor defines:   *)
(* its first evaluation raises NameError.  max and min of an empty list    *)
(* raise ValueError.                                                       *)

MaxOf(set) == CHOOSE x \in set : \A y \in set : y <= x
MinOf(set) == CHOOSE x \in set : \A y \in set : x <= y

\* t.modification.time: the time of the ledger row of the table
ModificationTime(store, t) ==
    (CHOOSE m \in store.modification : m.table_name = t.tablename).date

TableTimes(store, r, type) ==
    {ModificationTime(store, t) : t \in Range(Select(r.tables, type))}

Fresh(res, value) == [res |-> res, value |-> value]

is_output_more_recent_than_input(store, r) ==
    IF Select(r.files, "input") # <<>>
    THEN Fresh(Err("NameError", <<>>, "os_path_getmtime_ms"), FALSE)
    ELSE IF TableTimes(store, r, "input") = {}
    THEN Fresh(Err("ValueError", <<>>, "max() arg is an empty sequence"), FALSE)
    ELSE IF Select(r.files, "output") # <<>>
    THEN Fresh(Err("NameError", <<>>, "os_path_getmtime_ms"), FALSE)
    ELSE IF TableTimes(store, r, "output") = {}
    THEN Fresh(Err("ValueError", <<>>, "min() arg is an empty sequence"), FALSE)
    ELSE Fresh(Ok, MaxOf(TableTimes(store, r, "input")) < MinOf(TableTimes(store, r, "output")))

-----------------------------------------------------------------------------
(* Properties of the reader.                                               *)

TopKeys == KeysOf(RawTree(doc.blocks))
BodyOf(key) == Get(RawTree(doc.blocks), key)
KeysOfAny(node) == IF node.t = "map" THEN Range(KeysOf(node)) ELSE {}
IsWord(key, words) == key.t = "str" /\ key.v \in words

\* the load went as far as the grammar validator
GrammarRan == phase # "constructed" /\ loadResult.kind \notin {"FileNotFound", "DuplicateRule", "DuplicateKey"}

\* C1: when read() fails while binding a rule (the tool is not resolved, or
\* is_content_respected rejects a rule), the transaction is rolled back: no
\* rule row, with its descriptors and options, is persisted and nothing is
\* left pending.
C1_NoRuleRowAfterFailedRead ==
    (phase = "read" /\ readResult.kind \in {"ToolNotFound", "ContentViolation"})
        => (db.rules = {} /\ session_new = NoPending)

\* two rule blocks whose keys are rule keys with the same rule name
SameRuleNameTwice ==
    \E i, j \in 1..Len(doc.blocks) :
        /\ i < j
        /\ regex_step1(YamlKey(doc.blocks[i].header))
        /\ regex_step1(YamlKey(doc.blocks[j].header))
        /\ str_rule_name(YamlKey(doc.blocks[i].header)) = str_rule_name(YamlKey(doc.blocks[j].header))

\* C2: a definition in which two rule blocks carry the same rule name is
\* rejected by load_definition_file with the duplicate-rule error, before the
\* document is loaded and before any row is written.
C2_DuplicateRuleRejected ==
    (phase # "constructed" /\ doc.exists /\ SameRuleNameTwice)
        => /\ loadResult.kind = "DuplicateRule"
           /\ dict_workflow_definition = Null
           /\ db.rules = {}

\* some mapping of the tree, at any depth, has the same key twice
RECURSIVE HasDuplicateKey(_)
HasDuplicateKey(node) ==
    /\ node.t = "map"
    /\ \/ \E i, j \in 1..Len(node.kv) : i # j /\ node.kv[i][1] = node.kv[j][1]
       \/ \E i \in 1..Len(node.kv) : HasDuplicateKey(node.kv[i][2])

\* C3: a document with the same key twice in one mapping, at any nesting
\* level, is rejected with a parsing error and the reader keeps no workflow
\* definition; a document without such a key is not rejected for a duplicate key.
C3_DuplicateKeyRejected ==
    (phase # "constructed" /\ doc.exists)
        => /\ HasDuplicateKey(RawTree(doc.blocks))
                => /\ loadResult.kind \in {"DuplicateKey", "DuplicateRule"}
                   /\ dict_workflow_definition = Null
           /\ ~HasDuplicateKey(RawTree(doc.blocks)) => loadResult.kind # "DuplicateKey"

\* the rule blocks whose keys the grammar forbids: a key that is not
\* 'rule <identifier>', a key of the rule outside tool/input/output/params,
\* a key under input or output outside files/tables, or no tool key
OffendingRule(key) ==
    \/ ~regex_step1(key.p)
    \/ \E k \in KeysOfAny(BodyOf(key)) : ~IsWord(k, {"tool", "input", "output", "params"})
    \/ \E k \in KeysOfAny(BodyOf(key)) :
          /\ IsWord(k, {"input", "output"})
          /\ \E k3 \in KeysOfAny(Get(BodyOf(key), k)) : ~IsWord(k3, {"files", "tables"})
    \/ ~(\E k \in KeysOfAny(BodyOf(key)) : IsWord(k, {"tool"}))

\* C4: the grammar validator accepts a document only if no rule block is
\* offending, and a document with an offending rule block gets the
\* grammar-violation error, which names a rule block of the document.
C4_GrammarKeys ==
    (GrammarRan /\ RawTree(doc.blocks).t = "map")
        => /\ loadResult.kind = "ok" => \A i \in 1..Len(TopKeys) : ~OffendingRule(TopKeys[i])
           /\ (\E i \in 1..Len(TopKeys) : OffendingRule(TopKeys[i]))
                => /\ loadResult.kind = "GrammarViolation"
                   /\ \E i \in 1..Len(TopKeys) : loadResult.rule = TopKeys[i].p

\* the value of the tool key of a rule block is a non-empty string scalar
ToolIsString(key) ==
    /\ BodyOf(key).t = "map"
    /\ Cardinality({i \in 1..Len(BodyOf(key).kv) : IsWord(BodyOf(key).kv[i][1], {"tool"})}) = 1
    /\ Get(BodyOf(key), Str("tool")).t = "str"
    /\ Get(BodyOf(key), Str("tool")).v # ""

\* C5: every rule block the grammar validator accepts has exactly one tool
\* key whose value is a scalar string; a tool value that is a mapping, a
\* number or empty is rejected with the grammar-violation error.
C5_ToolIsScalarString ==
    (GrammarRan /\ RawTree(doc.blocks).t = "map")
        => /\ loadResult.kind = "ok" => \A i \in 1..Len(TopKeys) : ToolIsString(TopKeys[i])
           /\ (\E i \in 1..Len(TopKeys) :
                  /\ BodyOf(TopKeys[i]).t = "map"
                  /\ HasKey(BodyOf(TopKeys[i]), Str("tool"))
                  /\ ~ToolIsString(TopKeys[i])
                  /\ \A j \in 1..Len(TopKeys) : ~OffendingRule(TopKeys[j]))
                => loadResult.kind = "GrammarViolation"

\* C6: on every parsed tree the grammar validator returns normally or raises
\* a WopMarsException; it raises nothing else.
C6_GrammarTotal ==
    GrammarRan => loadResult.kind \in {"ok"} \cup WopMarsKinds

-----------------------------------------------------------------------------
(* Bound rules, and the operations of a rule on them.                      *)

ReaderIdle ==
    /\ doc = [exists |-> FALSE, blocks |-> <<>>]
    /\ seeded = FALSE
    /\ dict_workflow_definition = Null
    /\ phase = "constructed"
    /\ loadResult = NotRun
    /\ readResult = NotRun
    /\ set_wrapper = <<>>
    /\ session_new = NoPending

\* the path the reader stores for a path of a definition
BoundPath(p) == Abspath(Join(Directory, p))

Bound(name, decl, files, tables, options) ==
    [id |-> 1, name |-> name, toolwrapper |-> "", state |-> Rule_NEW,
     started_at |-> Unset, finished_at |-> Unset, time |-> Unset, status |-> DefaultStatus,
     decl |-> decl, files |-> files, tables |-> tables, options |-> options]

RECURSIVE Flatten(_)
Flatten(seqs) == IF seqs = <<>> THEN <<>> ELSE Head(seqs) \o Flatten(Tail(seqs))

\* a wrapper that declares files, tables and options at once
Both == Decl(<<"input1">>, <<"output1">>, <<"FooBase">>, <<"FooBase2">>,
             <<<<"option1", <<"int">>>>, <<"option2", <<"Required", "str">>>>>>)

ContentRules ==
    LET InFileChoices ==
            {<<>>, <<File("input1", BoundPath(P1.p), "input")>>,
             <<File("input2", BoundPath(P1.p), "input")>>,
             <<File("input1", BoundPath(P1.p), "input"), File("input2", BoundPath(P2.p), "input")>>}
        OutFileChoices ==
            {<<>>, <<File("output1", BoundPath(P2.p), "output")>>,
             <<File("output1", BoundPath(P2.p), "output"), File("output2", BoundPath(P3.p), "output")>>}
        InTableChoices ==
            {<<>>, <<Table("FooBase", "FooBase", "input")>>,
             <<Table("FooBase", "Other", "input")>>,
             <<Table("FooBase2", "FooBase2", "input")>>}
        OutTableChoices ==
            {<<>>, <<Table("FooBase2", "FooBase2", "output")>>,
             <<Table("FooBase", "FooBase", "output")>>}
        OptionChoices ==
            {<<>>, <<Option("option1", Num("5"))>>, <<Option("option2", Str("v"))>>,
             <<Option("option1", Num("5")), Option("option2", Str("v"))>>,
             <<Option("option2", Str("v")), Option("option3", Str("v"))>>,
             <<Option("option1", Str("v"))>>}
    IN {Bound(<<"a">>, d, Flatten(<<fi, fo>>), Flatten(<<ti, to>>), o) :
           d \in {FooWrapper6, Query, Example, Both}, fi \in InFileChoices, fo \in OutFileChoices,
           ti \in InTableChoices, to \in OutTableChoices, o \in OptionChoices}

InitContent ==
    /\ ReaderIdle
    /\ db = EmptyDb
    /\ rules \in {<<r>> : r \in ContentRules}
    /\ mtime = <<>>
    /\ op = NoOp
    /\ EnvIdle

Done(name, self, other, res, value) ==
    [name |-> name, self |-> self, other |-> other, res |-> res, value |-> value]

IsContentRespected(i) ==
    /\ op' = Done("is_content_respected", i, 0, is_content_respected(rules[i]), FALSE)
    /\ UNCHANGED <<readerVars, db, rules, mtime, envVars>>

IsInputRespected(i) ==
    /\ op' = Done("is_input_respected", i, 0, is_input_respected(rules[i]), FALSE)
    /\ UNCHANGED <<readerVars, db, rules, mtime, envVars>>

IsOutputRespected(i) ==
    /\ op' = Done("is_output_respected", i, 0, is_output_respected(rules[i]), FALSE)
    /\ UNCHANGED <<readerVars, db, rules, mtime, envVars>>

IsOptionsRespected(i) ==
    /\ op' = Done("is_options_respected", i, 0, is_options_respected(rules[i]), FALSE)
    /\ UNCHANGED <<readerVars, db, rules, mtime, envVars>>

NextContent ==
    \E i \in 1..Len(rules) :
        \/ IsContentRespected(i)
        \/ IsInputRespected(i)
        \/ IsOutputRespected(i)
        \/ IsOptionsRespected(i)

SpecContent == InitContent /\ [][NextContent]_vars

\* the rule the last operation was applied to
Self == rules[op.self]

BoundFileNames(r, type) == {r.files[k].name : k \in {n \in 1..Len(r.files) : r.files[n].type = type}}
BoundTableNames(r, type) == {r.tables[k].tablename : k \in {n \in 1..Len(r.tables) : r.tables[n].type = type}}

InputSetsMatch(r) ==
    /\ BoundFileNames(r, "input") = Range(r.decl.input_file)
    /\ BoundTableNames(r, "input") = Range(r.decl.input_table)
OutputSetsMatch(r) ==
    /\ BoundFileNames(r, "output") = Range(r.decl.output_file)
    /\ BoundTableNames(r, "output") = Range(r.decl.output_table)

NamesRule(res, r) == res.kind = "ContentViolation" /\ res.rule = r.name

\* C7: is_content_respected succeeds only if the bound input file names,
\* output file names, input table names and output table names each equal
\* the set the tool declares; a missing or extra name in one of the four
\* sets makes the input or output check raise the content-violation error
\* that names the rule, and is_content_respected raises it as soon as the
\* options pass.
C7_ContentSetsEqual ==
    /\ (op.name = "is_content_respected" /\ op.res = Ok)
          => (InputSetsMatch(Self) /\ OutputSetsMatch(Self))
    /\ (op.name = "is_content_respected" /\ ~(InputSetsMatch(Self) /\ OutputSetsMatch(Self))
            /\ is_options_respected(Self) = Ok)
          => NamesRule(op.res, Self)
    /\ (op.name = "is_input_respected" /\ ~InputSetsMatch(Self)) => NamesRule(op.res, Self)
    /\ (op.name = "is_output_respected" /\ ~OutputSetsMatch(Self)) => NamesRule(op.res, Self)

\* an extra output table is what the content check rejects
C7_Witness ==
    /\ op.name = "is_content_respected"
    /\ is_options_respected(Self) = Ok
    /\ InputSetsMatch(Self)
    /\ BoundFileNames(Self, "output") = Range(Self.decl.output_file)
    /\ BoundTableNames(Self, "output") # Range(Self.decl.output_table)
    /\ NamesRule(op.res, Self)

BoundOptionNames(r) == {r.options[k].name : k \in 1..Len(r.options)}
DeclaredOptions(r) == {r.decl.params[k][1] : k \in 1..Len(r.decl.params)}
RequiredOptions(r) ==
    {r.decl.params[k][1] : k \in {n \in 1..Len(r.decl.params) :
        \E w \in 1..Len(r.decl.params[n][2]) :
            r.decl.params[n][2][w] \in {"required", "Required", "REQUIRED"}}}

\* C8: is_options_respected succeeds only if every bound option is declared
\* by specify_params and every declared option whose type spec contains
\* 'required' is bound; an undeclared option or a missing required option
\* raises the content-violation error.
C8_OptionsRespected ==
    op.name = "is_options_respected"
        => /\ op.res = Ok => /\ BoundOptionNames(Self) \subseteq DeclaredOptions(Self)
                             /\ RequiredOptions(Self) \subseteq BoundOptionNames(Self)
           /\ ~(BoundOptionNames(Self) \subseteq DeclaredOptions(Self))
                => op.res.kind = "ContentViolation"
           /\ ~(RequiredOptions(Self) \subseteq BoundOptionNames(Self))
                => op.res.kind = "ContentViolation"

\* every bound option is declared and well typed, a required one is missing
C8_Witness ==
    /\ op.name = "is_options_respected"
    /\ BoundOptionNames(Self) \subseteq DeclaredOptions(Self)
    /\ BoundOptionNames(Self) # {}
    /\ \A k \in 1..Len(Self.options) : correspond(Self.options[k].value, TypeOf(Self, Self.options[k].name))
    /\ ~(RequiredOptions(Self) \subseteq BoundOptionNames(Self))
    /\ op.res.kind = "ContentViolation"

-----------------------------------------------------------------------------
(* Two bound rules and Rule.follows.                                       *)

DagRules ==
    LET DagInFiles ==
            {<<>>, <<File("input1", BoundPath(P1.p), "input")>>,
             <<File("input1", BoundPath(P2.p), "input"), File("input2", BoundPath(P1.p), "input")>>}
        DagOutFiles ==
            {<<>>, <<File("output1", BoundPath(P1dot.p), "output")>>,
             <<File("input1", BoundPath(P3.p), "output")>>}
        DagInTables ==
            {<<>>, <<Table("FooBase", "FooBase", "input")>>,
             <<Table("FooBase2", "FooBase", "input")>>}
        DagOutTables ==
            {<<>>, <<Table("FooBase", "FooBase", "output")>>,
             <<Table("FooBase", "FooBase2", "output")>>}
    IN {Bound(<<"a">>, Example, Flatten(<<fi, fo>>), Flatten(<<ti, to>>), <<>>) :
           fi \in DagInFiles, fo \in DagOutFiles, ti \in DagInTables, to \in DagOutTables}
       \cup {Bound(<<"b">>, FooWrapper6, Flatten(<<fi, fo>>), <<>>,
                   <<Option("option1", Num("5"))>>) :
           fi \in DagInFiles, fo \in DagOutFiles}

InitDag ==
    /\ ReaderIdle
    /\ db = EmptyDb
    /\ rules \in {<<r1, r2>> : r1 \in DagRules, r2 \in DagRules}
    /\ mtime = <<>>
    /\ op = NoOp
    /\ EnvIdle

\* rules[i].follows(rules[j])
Follows(i, j) ==
    /\ op' = Done("follows", i, j, Ok, follows(rules[i], rules[j]))
    /\ UNCHANGED <<readerVars, db, rules, mtime, envVars>>

NextDag == \E i, j \in 1..Len(rules) : Follows(i, j)

SpecDag == InitDag /\ [][NextDag]_vars

Other == rules[op.other]

SharesFile(r, pred) ==
    \E f \in Range(r.files), g \in Range(pred.files) :
        f.type = "input" /\ g.type = "output" /\ f.path = g.path
SharesTable(r, pred) ==
    \E t \in Range(r.tables), u \in Range(pred.tables) :
        t.type = "input" /\ u.type = "output" /\ t.model = u.model

\* C9: r.follows(r') is True if and only if some output file of r' has the
\* path of some input file of r, or some output table of r' has the model
\* of some input table of r; the outputs of r, the inputs of r', the logical
\* names and the options play no part.
C9_FollowsIffSharedOutput ==
    op.name = "follows" => (op.value <=> (SharesFile(Self, Other) \/ SharesTable(Self, Other)))

\* the two rules share a model under different table names, and no path
C9_Witness ==
    /\ op.name = "follows"
    /\ op.value
    /\ ~SharesFile(Self, Other)
    /\ \A t \in Range(Self.tables), u \in Range(Other.tables) :
          (t.type = "input" /\ u.type = "output") => t.tablename # u.tablename

-----------------------------------------------------------------------------
(* One bound rule, the times of its files and of its tables, and           *)
(* Rule.is_output_more_recent_than_input.                                  *)

MaxTime == 2

FreshRules ==
    {Bound(<<"a">>, Example, Flatten(<<fi, fo>>), Flatten(<<ti, to>>), <<>>) :
        fi \in {<<>>, <<File("input1", BoundPath(P1.p), "input")>>},
        fo \in {<<>>, <<File("output1", BoundPath(P2.p), "output")>>},
        ti \in {<<>>, <<Table("FooBase", "FooBase", "input")>>},
        to \in {<<>>, <<Table("FooBase2", "FooBase2", "output")>>}}

InitFresh ==
    /\ ReaderIdle
    /\ \E d1, d2 \in 0..MaxTime :
          db = [rules |-> {}, modification |-> {[table_name |-> "FooBase", date |-> d1],
                                                [table_name |-> "FooBase2", date |-> d2]}]
    /\ rules \in {<<r>> : r \in FreshRules}
    /\ mtime \in [{BoundPath(P1.p), BoundPath(P2.p)} -> 0..MaxTime]
    /\ op = NoOp
    /\ EnvIdle

IsOutputMoreRecentThanInput(i) ==
    /\ LET f == is_output_more_recent_than_input(db, rules[i])
       IN op' = Done("is_output_more_recent_than_input", i, 0, f.res, f.value)
    /\ UNCHANGED <<readerVars, db, rules, mtime, envVars>>

NextFresh == \E i \in 1..Len(rules) : IsOutputMoreRecentThanInput(i)

SpecFresh == InitFresh /\ [][NextFresh]_vars

\* I and O of a rule: the times of its inputs and of its outputs
TimesOf(r, type) ==
    {mtime[f.path] : f \in {x \in Range(r.files) : x.type = type}}
        \cup {m.date : m \in {x \in db.modification :
                 \E t \in Range(r.tables) : t.type = type /\ t.tablename = x.table_name}}

\* C10: is_output_more_recent_than_input returns True if and only if I < O,
\* where I is the greatest time of the input files and input tables and O
\* the least time of the output files and output tables; when I equals O it
\* returns False.
C10_FreshIffStrictlyOlder ==
    (op.name = "is_output_more_recent_than_input"
        /\ TimesOf(Self, "input") # {} /\ TimesOf(Self, "output") # {})
        => /\ op.res = Ok
           /\ op.value <=> (MaxOf(TimesOf(Self, "input")) < MinOf(TimesOf(Self, "output")))

-----------------------------------------------------------------------------
(* Rule.same_input_than and the accessors of the run method: input_file,   *)
(* output_file, input_table, output_table, option.                         *)

same_input_than(self, other) ==
    IF \E t \in Range(Select(self.tables, "input")) :
          ~\E t2 \in Range(Select(other.tables, "input")) :
              t.model = t2.model /\ t.tablename = t2.tablename /\ t.used_at = t2.used_at
    THEN FALSE
    ELSE ~\E f \in Range(Select(self.files, "input")) :
            ~\E f2 \in Range(Select(other.files, "input")) :
                /\ f.name = f2.name /\ f.path = f2.path
                /\ f.used_at = f2.used_at /\ f.size = f2.size

Returned(res, value) == [res |-> res, value |-> value]
Undeclared(r, what) == Returned(Err("UndeclaredAccess", r.name, what), Null)

\* [...][0] of the list comprehension of an accessor, or the IndexError handler
FirstOr(list, r, what) ==
    IF list = <<>> THEN Undeclared(r, what) ELSE Returned(Ok, list[1])

\* the accessor without the test of the role
input_file_any_role(r, key) ==
    FirstOr([i \in 1..Len(SelectSeq(r.files, LAMBDA f : f.name = key)) |->
                SelectSeq(r.files, LAMBDA f : f.name = key)[i].path], r, "input file")

input_file(r, key) ==
    FirstOr(Paths([files |-> SelectSeq(r.files, LAMBDA f : f.name = key)], "input"),
            r, "input file")

output_file(r, key) ==
    FirstOr(Paths([files |-> SelectSeq(r.files, LAMBDA f : f.name = key)], "output"),
            r, "output file")

\* t.get_table(): the model class, known by its identifier
input_table(r, key) ==
    FirstOr(Models([tables |-> SelectSeq(r.tables, LAMBDA t : t.tablename = key)], "input"),
            r, "input table")

output_table(r, key) ==
    FirstOr(Models([tables |-> SelectSeq(r.tables, LAMBDA t : t.tablename = key)], "output"),
            r, "output table")

\* Option.static_option_castable
Castable == {"str", "int", "float", "bool"}

\* eval(s_formated_type)(value)
Cast(type, value) ==
    IF type = "str" THEN Returned(Ok, Str(value.v))
    ELSE IF value.t = "int" THEN Returned(Ok, value)
    ELSE Returned(Err("ValueError", <<>>, type), Null)

RECURSIVE CastLoop(_, _, _)
CastLoop(typespec, i, value) ==
    IF i > Len(typespec) THEN Returned(Ok, value)
    ELSE IF Lower(typespec[i]) \in Castable THEN Cast(Lower(typespec[i]), value)
    ELSE CastLoop(typespec, i + 1, value)

\* option with the IndexError handler raising like the other accessors
option_raising(r, key) ==
    IF SelectSeq(r.options, LAMBDA o : o.name = key) = <<>>
    THEN Undeclared(r, "option")
    ELSE IF key \notin DeclaredNames(r) THEN Returned(Err("KeyError", <<>>, key), Null)
    ELSE CastLoop(TypeOf(r, key), 1, SelectSeq(r.options, LAMBDA o : o.name = key)[1].value)

option(r, key) ==
    IF SelectSeq(r.options, LAMBDA o : o.name = key) = <<>>
    THEN Returned(Ok, Null)
    ELSE IF key \notin DeclaredNames(r) THEN Returned(Err("KeyError", <<>>, key), Null)
    ELSE CastLoop(TypeOf(r, key), 1, SelectSeq(r.options, LAMBDA o : o.name = key)[1].value)

\* two bound rules whose inputs carry the provenance of an earlier run
FacadeInputs ==
    LET f == File("input1", BoundPath(P1.p), "input")
        g == File("input2", BoundPath(P2.p), "input")
        t == Table("FooBase", "FooBase", "input")
        InFiles ==
            {<<>>, <<[f EXCEPT !.used_at = 1, !.size = 1]>>,
             <<[f EXCEPT !.used_at = 2, !.size = 1]>>,
             <<[f EXCEPT !.used_at = 1, !.size = 2]>>,
             <<[f EXCEPT !.used_at = 1, !.size = 1], [g EXCEPT !.used_at = 1, !.size = 1]>>}
        InTables ==
            {<<>>, <<[t EXCEPT !.used_at = 1]>>, <<[t EXCEPT !.used_at = 2]>>}
    IN {Bound(<<"b">>, Example, fi, ti, <<>>) : fi \in InFiles, ti \in InTables}

FacadeRules ==
    LET InFiles == {<<>>, <<File("input1", BoundPath(P1.p), "input")>>}
        OutFiles == {<<File("output1", BoundPath(P2.p), "output")>>,
                     <<File("input1", BoundPath(P3.p), "output")>>}
        InTables == {<<>>, <<Table("FooBase", "FooBase", "input")>>}
        OutTables == {<<Table("FooBase2", "FooBase2", "output")>>,
                      <<Table("FooBase", "FooBase", "output")>>}
        Options == {<<Option("option1", Num("5"))>>,
                    <<Option("option2", Str("v")), Option("option1", Str("v"))>>,
                    <<Option("option3", Str("v"))>>}
    IN {Bound(<<"a">>, Example, Flatten(<<fi, fo>>), Flatten(<<ti, to>>), <<>>) :
           fi \in InFiles, fo \in OutFiles, ti \in InTables, to \in OutTables}
       \cup {Bound(<<"a">>, Example, <<>>, <<>>, o) : o \in Options}

\* the rules of FacadeInputs that the first run left their provenance on
FirstRun ==
    {r \in FacadeInputs :
        /\ \A f \in Range(r.files) : f.used_at = 1 /\ f.size = 1
        /\ \A t \in Range(r.tables) : t.used_at = 1}

FacadeKeys == <<"input1", "FooBase", "option1", "nope">>

InitFacade ==
    /\ ReaderIdle
    /\ db = EmptyDb
    /\ rules \in {<<r1, r2>> : r1 \in FacadeInputs \cup FacadeRules, r2 \in FirstRun}
    /\ mtime = <<>>
    /\ op = NoOp
    /\ EnvIdle

\* rules[i].same_input_than(rules[j])
SameInputThan(i, j) ==
    /\ op' = Done("same_input_than", i, j, Ok, same_input_than(rules[i], rules[j]))
    /\ UNCHANGED <<readerVars, db, rules, mtime, envVars>>

\* an accessor called with FacadeKeys[k]; op.other keeps k
Accessed(name, i, k, returned) ==
    /\ op' = Done(name, i, k, returned.res, returned.value)
    /\ UNCHANGED <<readerVars, db, rules, mtime, envVars>>

InputFile(i, k) == Accessed("input_file", i, k, input_file(rules[i], FacadeKeys[k]))
OutputFile(i, k) == Accessed("output_file", i, k, output_file(rules[i], FacadeKeys[k]))
InputTable(i, k) == Accessed("input_table", i, k, input_table(rules[i], FacadeKeys[k]))
OutputTable(i, k) == Accessed("output_table", i, k, output_table(rules[i], FacadeKeys[k]))
OptionValue(i, k) == Accessed("option", i, k, option(rules[i], FacadeKeys[k]))

NextFacade ==
    \E i \in 1..Len(rules) :
        \/ \E j \in 1..Len(rules) : SameInputThan(i, j)
        \/ \E k \in 1..Len(FacadeKeys) :
              \/ InputFile(i, k)
              \/ OutputFile(i, k)
              \/ InputTable(i, k)
              \/ OutputTable(i, k)
              \/ OptionValue(i, k)

SpecFacade == InitFacade /\ [][NextFacade]_vars

InputFilesOf(r) ==
    {<<f.name, f.path, f.used_at, f.size>> : f \in Range(Select(r.files, "input"))}
InputTablesOf(r) ==
    {<<t.model, t.tablename, t.used_at>> : t \in Range(Select(r.tables, "input"))}

\* C11: same_input_than is True exactly when the two rules have the same set
\* of inputs, files compared by name, path, used_at and size, tables by
\* model, tablename and used_at; a rule with no inputs does not match a rule
\* that has inputs.
C11_SameInputThanIffSameInputs ==
    op.name = "same_input_than" =>
        (op.value <=> (/\ InputFilesOf(Self) = InputFilesOf(Other)
                       /\ InputTablesOf(Self) = InputTablesOf(Other)))

Key == FacadeKeys[op.other]

\* what the descriptors of the rule bound under the key with the role hold
ValuesBound(r, name) ==
    CASE name = "input_file" ->
            {f.path : f \in {x \in Range(r.files) : x.name = Key /\ x.type = "input"}}
      [] name = "output_file" ->
            {f.path : f \in {x \in Range(r.files) : x.name = Key /\ x.type = "output"}}
      [] name = "input_table" ->
            {t.model : t \in {x \in Range(r.tables) : x.tablename = Key /\ x.type = "input"}}
      [] OTHER ->
            {t.model : t \in {x \in Range(r.tables) : x.tablename = Key /\ x.type = "output"}}

\* C13: input_file, output_file, input_table and output_table return the
\* path or the model of a descriptor bound under the name with the role of
\* the accessor; a name not bound with that role, bound with the opposite
\* role included, fails with the undeclared-access error.
C13_AccessorsByRole ==
    op.name \in {"input_file", "output_file", "input_table", "output_table"} =>
        IF ValuesBound(Self, op.name) = {}
        THEN op.res.kind = "UndeclaredAccess"
        ELSE op.res = Ok /\ op.value \in ValuesBound(Self, op.name)

\* input_file of a name that only an output file of the rule bears
C13_Witness ==
    /\ op.name = "input_file"
    /\ ValuesBound(Self, "input_file") = {}
    /\ ValuesBound(Self, "output_file") # {}
    /\ op.res.kind = "UndeclaredAccess"

\* C14 as stated: option(name) fails with the undeclared-access error when
\* the rule binds no option of that name.
C14_UnboundOptionRaises ==
    (op.name = "option" /\ Key \notin BoundOptionNames(Self)) =>
        op.res.kind = "UndeclaredAccess"

\* C14: option(name) returns None, and raises nothing, when the rule binds
\* no option of that name.
C14_UnboundOptionReturnsNone ==
    (op.name = "option" /\ Key \notin BoundOptionNames(Self)) =>
        (op.res = Ok /\ op.value = Null)

\* a rule that binds other options is asked for one it does not bind
C14_Witness ==
    /\ op.name = "option"
    /\ Self.options # <<>>
    /\ Key \notin BoundOptionNames(Self)
    /\ op.value = Null

-----------------------------------------------------------------------------
(* Rule.are_inputs_ready and Rule.set_args_time_and_size, on the file      *)
(* system (mtime, fsize), the tables that hold rows (content) and the      *)
(* ledger.                                                                 *)

\* IOFilePut.is_ready: the file exists on disk
file_is_ready(f) == f.path \in DOMAIN mtime

\* IODbPut.is_ready: the ledger knows the table and the table holds a row
table_is_ready(store, t) ==
    /\ \E m \in store.modification : m.table_name = t.tablename
    /\ t.tablename \in content

Ready(state, value) == [state |-> state, value |-> value]

\* are_inputs_ready without the loop over the input tables
are_inputs_ready_files_only(store, r) ==
    IF \E f \in Range(Select(r.files, "input")) : ~file_is_ready(f)
    THEN Ready(NOT_READY, FALSE)
    ELSE Ready(READY, TRUE)

are_inputs_ready(store, r) ==
    IF \E f \in Range(Select(r.files, "input")) : ~file_is_ready(f)
    THEN Ready(NOT_READY, FALSE)
    ELSE IF \E t \in Range(Select(r.tables, "input")) : ~table_is_ready(store, t)
    THEN Ready(NOT_READY, FALSE)
    ELSE Ready(READY, TRUE)

Stamped(res, files) == [res |-> res, files |-> files]

\* the loop over the files without the dry-run branch: a file that does not
\* exist always raises
RECURSIVE StampFilesOrRaise(_, _, _, _)
StampFilesOrRaise(r, files, i, type) ==
    IF i > Len(files) THEN Stamped(Ok, files)
    ELSE IF files[i].type # type THEN StampFilesOrRaise(r, files, i + 1, type)
    ELSE IF files[i].path \in DOMAIN mtime
    THEN StampFilesOrRaise(r, [files EXCEPT ![i].mtime_epoch_millis = mtime[files[i].path],
                                            ![i].used_at = mtime[files[i].path],
                                            ![i].size = fsize[files[i].path]],
                           i + 1, type)
    ELSE Stamped(Err("FileNotFound", r.name, type), r.files)

\* the loop over the files of the type (lines 344-371): the files as the
\* loop leaves them, or the exception of a file that does not exist
RECURSIVE StampFiles(_, _, _, _)
StampFiles(r, files, i, type) ==
    IF i > Len(files) THEN Stamped(Ok, files)
    ELSE IF files[i].type # type THEN StampFiles(r, files, i + 1, type)
    ELSE IF files[i].path \in DOMAIN mtime
    THEN StampFiles(r, [files EXCEPT ![i].mtime_epoch_millis = mtime[files[i].path],
                                     ![i].used_at = mtime[files[i].path],
                                     ![i].size = fsize[files[i].path]],
                    i + 1, type)
    ELSE IF ~dry_run
    THEN Stamped(Err("FileNotFound", r.name, type), r.files)
    ELSE StampFiles(r, [files EXCEPT ![i].used_at = None, ![i].size = None], i + 1, type)

\* the loop over the tables of the type (lines 376-378)
StampTables(store, tables, type) ==
    [i \in 1..Len(tables) |->
        IF tables[i].type = type
        THEN [tables[i] EXCEPT !.used_at = ModificationTime(store, tables[i])]
        ELSE tables[i]]

\* the row of a rule: the transient state is not a column
Row(r) == [r EXCEPT !.state = Rule_NEW]

\* set_args_time_and_size(type, dry): the outcome, the rule entity and the
\* store after the rollback or the two commits; dry only changes the log
set_args_time_and_size(store, r, type, dry) ==
    LET s == StampFiles(r, r.files, 1, type)
        after == [r EXCEPT !.files = s.files, !.tables = StampTables(store, r.tables, type)]
    IN IF s.res.kind # "ok"
       THEN [res |-> s.res, rule |-> r, db |-> store]
       ELSE [res |-> Ok, rule |-> after,
             db |-> [store EXCEPT !.rules = (@ \ {Row(r)}) \cup {Row(after)}]]

\* the arguments set_args_time_and_size is called with
RunArgs == <<[type |-> "input", dry |-> FALSE], [type |-> "input", dry |-> TRUE],
             [type |-> "output", dry |-> FALSE], [type |-> "output", dry |-> TRUE]>>

\* a rule with two input files that bear the provenance of an earlier run
UsedBefore ==
    Bound(<<"a">>, Example,
          <<[File("input1", BoundPath(P1.p), "input") EXCEPT !.used_at = 1, !.size = 1],
            [File("input2", BoundPath(P2.p), "input") EXCEPT !.used_at = 2, !.size = 1]>>,
          <<Table("FooBase", "FooBase", "input")>>, <<>>)

\* a bound rule whose row and ledger rows are committed, on a file system
\* where each of its two paths exists or not
InitRun ==
    /\ ReaderIdle
    /\ rules \in {<<r>> : r \in FreshRules \cup {UsedBefore}}
    /\ db = [rules |-> {Row(rules[1])},
             modification |-> {[table_name |-> "FooBase", date |-> Now - 2],
                               [table_name |-> "FooBase2", date |-> Now - 1]}]
    /\ \E paths \in SUBSET {BoundPath(P1.p), BoundPath(P2.p)} :
          /\ mtime = [q \in paths |-> IF q = BoundPath(P1.p) THEN 1 ELSE 2]
          /\ fsize = [q \in paths |-> 1]
    /\ content \in SUBSET {"FooBase"}
    /\ dry_run \in BOOLEAN
    /\ workers = <<>>
    /\ lock = 0
    /\ scheduler = NoScheduler
    /\ op = NoOp

AreInputsReady(i) ==
    /\ LET a == are_inputs_ready(db, rules[i])
       IN /\ rules' = [rules EXCEPT ![i].state = a.state]
          /\ op' = Done("are_inputs_ready", i, 0, Ok, a.value)
    /\ UNCHANGED <<readerVars, db, mtime, envVars>>

\* rules[i].set_args_time_and_size(RunArgs[k].type, RunArgs[k].dry)
SetArgsTimeAndSize(i, k) ==
    /\ LET a == set_args_time_and_size(db, rules[i], RunArgs[k].type, RunArgs[k].dry)
       IN /\ rules' = [rules EXCEPT ![i] = a.rule]
          /\ db' = a.db
          /\ op' = Done("set_args_time_and_size", i, k, a.res, FALSE)
    /\ UNCHANGED <<readerVars, mtime, envVars>>

NextRun ==
    \E i \in 1..Len(rules) :
        \/ AreInputsReady(i)
        \/ \E k \in 1..Len(RunArgs) : SetArgsTimeAndSize(i, k)

SpecRun == InitRun /\ [][NextRun]_vars

InputsReady(r) ==
    /\ \A f \in Range(r.files) : f.type = "input" => f.path \in DOMAIN mtime
    /\ \A t \in Range(r.tables) : t.type = "input" => table_is_ready(db, t)

\* C12: are_inputs_ready returns True and leaves the rule READY if and only
\* if every input file and every input table of the rule is ready;
\* otherwise it returns False and leaves the rule NOT_READY.
C12_ReadyIffAllInputsReady ==
    op.name = "are_inputs_ready" =>
        /\ op.value <=> InputsReady(Self)
        /\ Self.state = IF op.value THEN READY ELSE NOT_READY

\* the input file is there and the input table is not ready
C12_Witness ==
    /\ op.name = "are_inputs_ready"
    /\ \E f \in Range(Self.files) : f.type = "input" /\ f.path \in DOMAIN mtime
    /\ \E t \in Range(Self.tables) : t.type = "input" /\ ~table_is_ready(db, t)
    /\ ~op.value
    /\ Self.state = NOT_READY

LedgerDate(store, name) == (CHOOSE m \in store.modification : m.table_name = name).date

\* C19: set_args_time_and_size("output", dry=False) sets the time of the
\* ledger row of every output table of the rule to the current time, which
\* is strictly greater than the time the row held; with dry=True or with the
\* type "input" no ledger row changes.
C19_OutputLedgerBumped ==
    [][(op'.name = "set_args_time_and_size" /\ op'.res = Ok) =>
          IF RunArgs[op'.other].type = "output" /\ ~RunArgs[op'.other].dry
          THEN \A t \in Range(rules[op'.self].tables) :
                  t.type = "output" =>
                      /\ LedgerDate(db', t.tablename) = Now
                      /\ LedgerDate(db', t.tablename) > LedgerDate(db, t.tablename)
          ELSE db'.modification = db.modification]_vars

-----------------------------------------------------------------------------
(* WopMarsSession in the hands of two workers.  Each worker has a session  *)
(* of its own; commit, rollback and delete_content go to the manager,      *)
(* which takes its lock for the time of the operation.                     *)

\* WopMarsSession.commit: who is asked to commit, the session itself never
commit_by_the_session(new) == IF something(new) THEN "session" ELSE "nobody"

commit_call(new) == IF something(new) THEN "manager" ELSE "nobody"
rollback_call(new) == "manager"
delete_content_call(new) == "manager"

Running == [new |-> NoPending, pc |-> "run"]

SessionNames == <<"FooBase", "FooBase2">>

InitSession ==
    /\ ReaderIdle
    /\ db \in {[rules |-> {}, modification |-> {[table_name |-> n, date |-> Now - 1] : n \in ns}] :
                  ns \in SUBSET Range(SessionNames)}
    /\ rules = <<>>
    /\ mtime = <<>>
    /\ fsize = <<>>
    /\ content \in SUBSET {"FooBase"}
    /\ workers = <<Running, Running>>
    /\ lock = 0
    /\ scheduler = NoScheduler
    /\ dry_run = FALSE
    /\ op = NoOp

\* session.get_or_create(ModificationTable, defaults={"date": now},
\* table_name=SessionNames[k]) in the callback of worker w
GetOrCreate(w, k) ==
    /\ workers[w].pc = "run"
    /\ LET g == get_or_create(Sess(workers[w].new, db), SessionNames[k])
       IN /\ workers' = [workers EXCEPT ![w].new = g.st.new]
          /\ op' = Done("get_or_create", w, k, Ok, g.created)
    /\ UNCHANGED <<readerVars, db, rules, mtime, fsize, content, lock, dry_run, scheduler>>

\* worker w calls commit, rollback or delete_content: the manager makes it
\* wait for the lock, the session would not
Enter(w, name, by) ==
    /\ workers[w].pc = "run"
    /\ by # "nobody"
    /\ by = "manager" => lock = 0
    /\ lock' = IF by = "manager" THEN w ELSE lock
    /\ workers' = [workers EXCEPT ![w].pc = name]
    /\ op' = Done(name, w, 0, NotRun, FALSE)
    /\ UNCHANGED <<readerVars, db, rules, mtime, fsize, content, dry_run, scheduler>>

BeginCommit(w) == Enter(w, "commit", commit_call(workers[w].new))
BeginRollback(w) == Enter(w, "rollback", rollback_call(workers[w].new))
BeginDeleteContent(w) == Enter(w, "execute", delete_content_call(workers[w].new))

\* the operation is done on the database and the lock, if held, released
Leave(w, name) ==
    /\ workers[w].pc = name
    /\ lock' = IF lock = w THEN 0 ELSE lock
    /\ op' = Done(name, w, 0, Ok, FALSE)
    /\ UNCHANGED <<readerVars, rules, mtime, fsize, dry_run, scheduler>>

EndCommit(w) ==
    /\ Leave(w, "commit")
    /\ db' = commit(Sess(workers[w].new, db)).db
    /\ workers' = [workers EXCEPT ![w] = Running]
    /\ UNCHANGED content

EndRollback(w) ==
    /\ Leave(w, "rollback")
    /\ workers' = [workers EXCEPT ![w] = Running]
    /\ UNCHANGED <<db, content>>

\* delete_content(FooBase)
EndDeleteContent(w) ==
    /\ Leave(w, "execute")
    /\ content' = content \ {"FooBase"}
    /\ workers' = [workers EXCEPT ![w].pc = "run"]
    /\ UNCHANGED db

NextSession ==
    \E w \in 1..Len(workers) :
        \/ \E k \in 1..Len(SessionNames) : GetOrCreate(w, k)
        \/ BeginCommit(w)
        \/ EndCommit(w)
        \/ BeginRollback(w)
        \/ EndRollback(w)
        \/ BeginDeleteContent(w)
        \/ EndDeleteContent(w)

SpecSession == InitSession /\ [][NextSession]_vars

\* the rows of the ledger a session sees for a table: committed or its own
Seen(w, name) ==
    {m \in db.modification \cup workers[w].new.modification : m.table_name = name}

\* C15: get_or_create returns (existing, False) and adds nothing when a row
\* matches the lookup; otherwise it adds exactly one new row holding the
\* lookup value and the defaults and returns (row, True); called again at
\* once with the same lookup on the same session it returns False.
C15_GetOrCreate ==
    [][op'.name = "get_or_create" =>
          LET w == op'.self
              n == SessionNames[op'.other]
          IN /\ db' = db
             /\ IF Seen(w, n) # {}
                THEN ~op'.value /\ workers'[w].new = workers[w].new
                ELSE /\ op'.value
                     /\ workers'[w].new.modification =
                            workers[w].new.modification \cup {[table_name |-> n, date |-> Now]}
                     /\ workers'[w].new.rules = workers[w].new.rules
             /\ (op.name = "get_or_create" /\ op.self = w /\ op.other = op'.other)
                    => ~op'.value]_vars

\* get_or_create returned False for a table whose row the ledger held
C15_Witness ==
    /\ op.name = "get_or_create"
    /\ ~op.value
    /\ workers[op.self].new = NoPending
    /\ \E m \in db.modification : m.table_name = SessionNames[op.other] /\ m.date = Now - 1

\* C16: when two workers, each with a session of its own, call
\* get_or_create with the same lookup, at most one row is created for that
\* lookup, whatever the interleaving.
C16_OneRowPerLookup ==
    \A n \in Range(SessionNames) :
        Cardinality({w \in 1..Len(workers) :
                        \E m \in workers[w].new.modification : m.table_name = n})
            + Cardinality({m \in db.modification : m.table_name = n}) <= 1

InSection(w) == workers[w].pc \in {"commit", "rollback", "execute"}

\* C18: a worker that commits, rolls back or executes through its session
\* holds the lock of the manager, so that no two such sections overlap; the
\* lock is held by nobody else: not by a worker whose callback runs.
C18_SectionsUnderLock ==
    /\ \A w \in 1..Len(workers) : InSection(w) => lock = w
    /\ lock # 0 => InSection(lock)

\* a worker commits under the lock while the other has rows to commit
C18_Witness ==
    \E w, v \in 1..Len(workers) :
        /\ w # v
        /\ workers[w].pc = "commit"
        /\ lock = w
        /\ workers[v].pc = "run"
        /\ something(workers[v].new)

-----------------------------------------------------------------------------
(* The ledger after Reader.read.                                           *)

AllRows == db.modification \cup session_new.modification

BoundTablenames ==
    {t.tablename : t \in UNION {Range(set_wrapper[i].tables) : i \in 1..Len(set_wrapper)}}

\* C17: after the binding of any sequence of rules the ledger holds exactly
\* one row for each physical table name a bound table descriptor refers to,
\* never two rows for one table, and a row that existed before the binding
\* keeps its time.
C17_OneLedgerRowPerTable ==
    [][/\ \A m1, m2 \in AllRows' : m1.table_name = m2.table_name => m1 = m2
       /\ \A n \in BoundTablenames' : \E m \in AllRows' : m.table_name = n
       /\ \A m \in db.modification : m \in db'.modification]_vars

\* read has bound a table whose row was in the ledger and one it was not
C17_Witness ==
    /\ phase = "read"
    /\ \E m \in db.modification : m.table_name \in BoundTablenames /\ m.date = Now - 1
    /\ \E m \in db.modification : m.table_name \in BoundTablenames /\ m.date = Now

-----------------------------------------------------------------------------
(* Reader.load_one_toolwrapper, called with the wrapper, the inputs, the   *)
(* outputs and the params of the one rule block of a definition.           *)

\* a dict as eval gives it: no key twice, at any depth
RECURSIVE IsDict(_)
IsDict(node) ==
    /\ node.t = "map"
    /\ \A i, j \in 1..Len(node.kv) : i # j => PyKey(node.kv[i][1]) # PyKey(node.kv[j][1])
    /\ \A i \in 1..Len(node.kv) : node.kv[i][2].t = "map" => IsDict(node.kv[i][2])

\* the body of a rule block that reads as the arguments of the command: the
\* name of a wrapper and, at most, the dicts of inputs, outputs and params
IsToolCall(body) ==
    /\ IsDict(body)
    /\ \A k \in Range(KeysOf(body)) : IsWord(k, {"tool", "input", "output", "params"})
    /\ HasKey(body, Str("tool"))
    /\ Get(body, Str("tool")).t = "str"
    /\ \A k \in Range(KeysOf(body)) : k # Str("tool") => Get(body, k).t = "map"

Arg(body, k) == IF HasKey(body, Str(k)) THEN Get(body, Str(k)) ELSE Map(<<>>)

InitTool ==
    /\ Init
    /\ doc.exists
    /\ Len(doc.blocks) = 1
    /\ doc.blocks[1].header = RuleA
    /\ IsToolCall(doc.blocks[1].body)

\* Reader.load_one_toolwrapper(tool, inputs, outputs, params)
LoadOneToolwrapper ==
    /\ phase = "constructed"
    /\ LET body == doc.blocks[1].body
           l == load_one_toolwrapper(Get(body, Str("tool")), Arg(body, "input"),
                                     Arg(body, "output"), Arg(body, "params"),
                                     seeded, Sess(session_new, db))
       IN /\ readResult' = l.res
          /\ set_wrapper' = l.wrappers
          /\ session_new' = l.st.new
          /\ db' = l.st.db
    /\ phase' = "tool"
    /\ UNCHANGED <<doc, seeded, dict_workflow_definition, loadResult, rules, mtime, op, envVars>>

NextTool == LoadOneToolwrapper

SpecTool == InitTool /\ [][NextTool]_vars

\* what read() makes of a definition: its outcomes, the rules it has bound
\* and the session it leaves
ReadOf(file, isSeeded, st) ==
    LET l == load_definition_file(file)
    IN IF l.res.kind # "ok" THEN [res |-> {l.res}, wrappers |-> <<>>, st |-> st]
       ELSE LET b == bind(l.def, isSeeded, st)
            IN [res |-> IF b.res.kind # "ok" THEN {b.res} ELSE ContentOutcomes(b.wrappers),
                wrappers |-> b.wrappers, st |-> b.st]

\* a rule, or an outcome, without the name of the rule
Unnamed(r) == [r EXCEPT !.name = <<>>]
Anonymous(res) == [res EXCEPT !.rule = <<>>]

\* C20: load_one_toolwrapper(tool, inputs, outputs, params) does what read()
\* does on the definition that holds that single rule: the same outcome of
\* the binding and of the content check, the same bound rule (descriptors,
\* roles, absolute paths, ledger rows of its tables, options) and the same
\* rows persisted or pending, on success and on failure.
C20_SameAsRead ==
    [][phase' = "tool" =>
          LET r == ReadOf(doc, seeded, Sess(session_new, db))
          IN /\ Anonymous(readResult') \in {Anonymous(x) : x \in r.res}
             /\ [i \in 1..Len(set_wrapper') |-> Unnamed(set_wrapper'[i])]
                    = [i \in 1..Len(r.wrappers) |-> Unnamed(r.wrappers[i])]
             /\ db'.modification = r.st.db.modification
             /\ {Unnamed(x) : x \in db'.rules} = {Unnamed(x) : x \in r.st.db.rules}
             /\ session_new' = r.st.new]_vars

-----------------------------------------------------------------------------
(* The rest of the operations of a rule.                                   *)

\* C30: is_output_more_recent_than_input returns a boolean for every bound
\* rule, a rule without input files and input tables and a rule without
\* output files and output tables included; it never fails.
C30_FreshTotal ==
    op.name = "is_output_more_recent_than_input" => op.res = Ok

\* the files of the type that the rule binds and the disk does not hold
Missing(r, type) == {i \in 1..Len(r.files) : r.files[i].type = type /\ r.files[i].path \notin DOMAIN mtime}

\* C26: set_args_time_and_size on a rule with a file of the type that does
\* not exist: out of dry-run mode it rolls the session back and raises the
\* error of the missing file, which names the rule, and records nothing; in
\* dry-run mode it raises nothing, records used_at = None and size = None
\* for that file and goes on with the other files and the tables.
C26_MissingFile ==
    [][(op'.name = "set_args_time_and_size" /\ Missing(rules[op'.self], RunArgs[op'.other].type) # {}) =>
          LET r == rules[op'.self]
              after == rules'[op'.self]
              type == RunArgs[op'.other].type
          IN IF ~dry_run
             THEN /\ op'.res.kind = "FileNotFound"
                  /\ op'.res.rule = r.name
                  /\ after = r
                  /\ db' = db
             ELSE /\ op'.res = Ok
                  /\ \A i \in Missing(r, type) :
                        after.files[i].used_at = None /\ after.files[i].size = None
                  /\ \A i \in 1..Len(r.files) :
                        (r.files[i].type = type /\ i \notin Missing(r, type)) =>
                            /\ after.files[i].used_at = mtime[r.files[i].path]
                            /\ after.files[i].size = fsize[r.files[i].path]
                  /\ \A i \in 1..Len(r.tables) :
                        r.tables[i].type = type =>
                            after.tables[i].used_at = LedgerDate(db, r.tables[i].tablename)
                  /\ Row(after) \in db'.rules]_vars

\* in dry-run mode the first input file is gone: its provenance is erased,
\* the second input file and the input table are stamped
C26_Witness ==
    /\ op.name = "set_args_time_and_size"
    /\ op.res = Ok
    /\ dry_run
    /\ RunArgs[op.other].type = "input"
    /\ Len(Self.files) = 2 /\ Len(Self.tables) = 1
    /\ \A i \in 1..2 : Self.files[i].type = "input"
    /\ Self.files[1].path \notin DOMAIN mtime
    /\ Self.files[1].used_at = None
    /\ Self.files[2].path \in DOMAIN mtime
    /\ Self.files[2].used_at = mtime[Self.files[2].path]
    /\ Self.tables[1].used_at = LedgerDate(db, "FooBase")

-----------------------------------------------------------------------------
(* Rule.__eq__ and the comparisons it is made of.                          *)

same_files(self, other, type_name) ==
    \A f \in Range(Select(self.files, type_name)) :
        \E rf \in Range(other.files) :
            Abspath(f.path) = Abspath(rf.path) /\ f.name = rf.name /\ rf.type = type_name

\* line 555-557: in the comprehension t is the table of other, compared with
\* itself; the table of self plays no part
same_tables(self, other, type_name) ==
    \A t \in Range(Select(self.tables, type_name)) :
        \E t2 \in Range(other.tables) :
            t2.model = t2.model /\ t2.type = type_name /\ t2.tablename = t2.tablename

same_options(self, other) ==
    \A opt \in Range(self.options) :
        \E o \in Range(other.options) : o.name = opt.name /\ o.value = opt.value

\* isinstance(other, self.__class__): the wrappers are direct subclasses of Rule
isinstance(other, self) == other.decl = self.decl

__eq__(self, other) ==
    /\ isinstance(other, self)
    /\ same_files(self, other, "input")
    /\ same_tables(self, other, "input")
    /\ same_files(self, other, "output")
    /\ same_tables(self, other, "output")
    /\ same_options(self, other)

EqRules ==
    LET intables == {<<>>, <<Table("FooBase", "FooBase", "input")>>,
                     <<Table("FooBase2", "FooBase", "input")>>,
                     <<Table("FooBase", "Other", "input")>>}
        outtables == {<<>>, <<Table("FooBase2", "FooBase2", "output")>>}
    IN {Bound(<<"a">>, Example, <<>>, Flatten(<<ti, to>>), <<>>) :
           ti \in intables, to \in outtables}
       \cup {Bound(<<"a">>, Example, <<File("input1", BoundPath(P1.p), "input")>>, <<>>, <<>>),
             Bound(<<"a">>, Example, <<File("input1", BoundPath(P1.p), "output")>>, <<>>,
                   <<Option("option1", Num("5"))>>),
             Bound(<<"a">>, Query, <<>>, <<Table("FooBase", "FooBase", "input")>>, <<>>)}

InitEq ==
    /\ ReaderIdle
    /\ db = EmptyDb
    /\ rules \in {<<r1, r2>> : r1 \in EqRules, r2 \in EqRules}
    /\ mtime = <<>>
    /\ op = NoOp
    /\ EnvIdle

Compared(name, i, j, value) ==
    /\ op' = Done(name, i, j, Ok, value)
    /\ UNCHANGED <<readerVars, db, rules, mtime, envVars>>

SameFilesInput(i, j) == Compared("same_files(input)", i, j, same_files(rules[i], rules[j], "input"))
SameFilesOutput(i, j) == Compared("same_files(output)", i, j, same_files(rules[i], rules[j], "output"))
SameTablesInput(i, j) == Compared("same_tables(input)", i, j, same_tables(rules[i], rules[j], "input"))
SameTablesOutput(i, j) == Compared("same_tables(output)", i, j, same_tables(rules[i], rules[j], "output"))
SameOptions(i, j) == Compared("same_options", i, j, same_options(rules[i], rules[j]))
Equal(i, j) == Compared("__eq__", i, j, __eq__(rules[i], rules[j]))

NextEq ==
    \E i, j \in 1..Len(rules) :
        \/ SameFilesInput(i, j)
        \/ SameFilesOutput(i, j)
        \/ SameTablesInput(i, j)
        \/ SameTablesOutput(i, j)
        \/ SameOptions(i, j)
        \/ Equal(i, j)

SpecEq == InitEq /\ [][NextEq]_vars

\* every table of r with the role has a table of the other rule with the
\* same role, model and tablename
TablesAmong(r, other, role) ==
    \A t \in Range(r.tables) :
        t.type = role =>
            \E u \in Range(other.tables) :
                u.type = role /\ u.model = t.model /\ u.tablename = t.tablename

\* C25: same_tables(other, role) returns True only if every table of self
\* with the role has a table of other with the same role, model and
\* tablename; so two rules of one class whose tables of some role differ in
\* model or tablename are not equal under __eq__.
C25_SameTablesByModelAndName ==
    /\ op.name = "same_tables(input)" /\ op.value => TablesAmong(Self, Other, "input")
    /\ op.name = "same_tables(output)" /\ op.value => TablesAmong(Self, Other, "output")
    /\ (op.name = "__eq__" /\ op.value)
          => TablesAmong(Self, Other, "input") /\ TablesAmong(Self, Other, "output")

-----------------------------------------------------------------------------
(* The life of a rule entity: every operation of the workflow manager and  *)
(* of the run method on one bound rule.                                    *)

\* the input files that are not ready, in the order of the rule
get_input_files_not_ready(r) ==
    SelectSeq(Select(r.files, "input"), LAMBDA f : ~file_is_ready(f))

Informed(res, rule) == [res |-> res, rule |-> rule]

\* set_execution_infos that also marks the rule READY when a status is given
set_execution_infos_and_state(r, start, stop, status) ==
    Informed(Ok, [r EXCEPT !.status = IF status # "" THEN status ELSE @,
                           !.state = IF status # "" THEN READY ELSE @])

\* set_execution_infos(start, stop, status); None is None, "" is no status.
\* started_at and finished_at are plain attributes: reading one that was
\* never assigned raises AttributeError, after the assignments before it
set_execution_infos(r, start, stop, status) ==
    LET a == [r EXCEPT !.started_at = IF start # None THEN start ELSE @,
                       !.finished_at = IF stop # None THEN stop ELSE @]
    IN IF a.started_at = Unset THEN Informed(Err("AttributeError", <<>>, "started_at"), a)
       ELSE IF a.started_at # None /\ a.finished_at = Unset
       THEN Informed(Err("AttributeError", <<>>, "finished_at"), a)
       ELSE Informed(Ok, [a EXCEPT !.time = IF a.started_at # None /\ a.finished_at # None
                                             THEN a.finished_at - a.started_at ELSE @,
                                   !.status = IF status # "" THEN status ELSE @])

\* the arguments set_execution_infos is called with
InfoArgs ==
    <<[start |-> 1, stop |-> None, status |-> ""],
      [start |-> None, stop |-> 2, status |-> ""],
      [start |-> 1, stop |-> 2, status |-> "EXECUTED"],
      [start |-> None, stop |-> None, status |-> "EXECUTION_ERROR"]>>

InitLife ==
    /\ ReaderIdle
    /\ rules \in {<<r>> : r \in {x \in FreshRules : Select(x.files, "input") # <<>>
                                                   /\ Select(x.tables, "input") # <<>>}}
    /\ db = [rules |-> {Row(rules[1])},
             modification |-> {[table_name |-> "FooBase", date |-> Now - 2],
                               [table_name |-> "FooBase2", date |-> Now - 1]}]
    /\ \E paths \in {{BoundPath(P2.p)}, {BoundPath(P1.p), BoundPath(P2.p)}} :
          /\ mtime = [q \in paths |-> IF q = BoundPath(P1.p) THEN 1 ELSE 2]
          /\ fsize = [q \in paths |-> 1]
    /\ content \in SUBSET {"FooBase"}
    /\ dry_run = FALSE
    /\ workers = <<>>
    /\ lock = 0
    /\ scheduler = NoScheduler
    /\ op = NoOp

GetInputFilesNotReady(i) ==
    /\ op' = Done("get_input_files_not_ready", i, 0, Ok, get_input_files_not_ready(rules[i]))
    /\ UNCHANGED <<readerVars, db, rules, mtime, envVars>>

\* rules[i].set_execution_infos(InfoArgs[k].start, InfoArgs[k].stop, InfoArgs[k].status)
SetExecutionInfos(i, k) ==
    /\ LET a == set_execution_infos(rules[i], InfoArgs[k].start, InfoArgs[k].stop,
                                    InfoArgs[k].status)
       IN /\ rules' = [rules EXCEPT ![i] = a.rule]
          /\ op' = Done("set_execution_infos", i, k, a.res, FALSE)
    /\ UNCHANGED <<readerVars, db, mtime, envVars>>

NextLife ==
    \E i \in 1..Len(rules) :
        \/ AreInputsReady(i)
        \/ GetInputFilesNotReady(i)
        \/ IsContentRespected(i)
        \/ IsInputRespected(i)
        \/ IsOutputRespected(i)
        \/ IsOptionsRespected(i)
        \/ Follows(i, i)
        \/ SameInputThan(i, i)
        \/ IsOutputMoreRecentThanInput(i)
        \/ \E k \in 1..Len(InfoArgs) : SetExecutionInfos(i, k)
        \/ \E k \in 1..Len(FacadeKeys) :
              \/ InputFile(i, k)
              \/ OutputFile(i, k)
              \/ InputTable(i, k)
              \/ OutputTable(i, k)
              \/ OptionValue(i, k)

SpecLife == InitLife /\ [][NextLife]_vars

\* C24: the transient state of a rule is NEW on construction, is always one
\* of NEW, READY, NOT_READY, never returns to NEW once it has left it, and
\* no operation other than are_inputs_ready changes it.
C24_StateOnlyByAreInputsReady ==
    /\ \A i \in 1..Len(rules) : rules[i].state = Rule_NEW
    /\ [][\A i \in 1..Len(rules) :
              /\ rules'[i].state \in {Rule_NEW, READY, NOT_READY}
              /\ rules[i].state # Rule_NEW => rules'[i].state # Rule_NEW
              /\ op'.name # "are_inputs_ready" => rules'[i].state = rules[i].state]_vars

\* the rule has left NEW and set_execution_infos has then given it a status
C24_Witness ==
    /\ op.name = "set_execution_infos"
    /\ op.res = Ok
    /\ Self.status = "EXECUTED"
    /\ Self.state = NOT_READY

-----------------------------------------------------------------------------
(* WopMarsSession.commit, rollback and delete on a session that holds new, *)
(* dirty and deleted objects of the ledger.                                *)

\* the session of a callback: pending inserts, updates and deletions
Holding(new, dirty, deleted) == [new |-> new, dirty |-> dirty, deleted |-> deleted, pc |-> "run"]
Empty == Holding(NoPending, {}, {})

\* something() that counts the pending deletions too
something_or_deleted(s) == something(s.new) \/ s.dirty # {} \/ s.deleted # {}

\* bool(self.__session.new) or bool(self.__session.dirty)
something_pending(s) == something(s.new) \/ s.dirty # {}

\* the commit of the manager: the flush writes the inserts, the updates and
\* the deletions of the session
manager_commit(s, store) ==
    LET gone == s.deleted \cup {m.table_name : m \in s.dirty}
    IN [store EXCEPT !.modification =
           {m \in @ : m.table_name \notin gone} \cup s.dirty \cup s.new.modification]

Forwarded(to, s, store) == [to |-> to, s |-> s, store |-> store]

\* WopMarsSession.commit()
session_commit(s, store) ==
    IF something_pending(s) THEN Forwarded("manager", Empty, manager_commit(s, store))
    ELSE Forwarded("nobody", s, store)

\* WopMarsSession.rollback()
session_rollback(s, store) == Forwarded("manager", Empty, store)

\* WopMarsSession.delete(entry) of the persistent row of a table: a deleted
\* object is no longer counted as dirty
session_delete(s, name) ==
    [s EXCEPT !.deleted = @ \cup {name},
              !.dirty = {m \in @ : m.table_name # name}]

InitDelete ==
    /\ ReaderIdle
    /\ db \in {[rules |-> {}, modification |-> {[table_name |-> n, date |-> Now - 1] : n \in ns}] :
                  ns \in SUBSET Range(SessionNames)}
    /\ rules = <<>>
    /\ mtime = <<>>
    /\ fsize = <<>>
    /\ content = {}
    /\ workers = <<Empty>>
    /\ lock = 0
    /\ scheduler = NoScheduler
    /\ dry_run = FALSE
    /\ op = NoOp

Persistent(name) == \E m \in db.modification : m.table_name = name

Called(name, w, k, to, s, store) ==
    /\ workers' = [workers EXCEPT ![w] = s]
    /\ db' = store
    /\ op' = Done(name, w, k, Ok, to)
    /\ UNCHANGED <<readerVars, rules, mtime, envVarsButWorkers>>

\* session.add(ModificationTable(table_name=SessionNames[k], date=now))
Add(w, k) ==
    /\ ~Persistent(SessionNames[k])
    /\ Called("add", w, k, "session",
              [workers[w] EXCEPT !.new.modification =
                   @ \cup {[table_name |-> SessionNames[k], date |-> Now]}], db)

\* row.date = now on the persistent row of SessionNames[k]
Modify(w, k) ==
    /\ Persistent(SessionNames[k])
    /\ SessionNames[k] \notin workers[w].deleted
    /\ Called("modify", w, k, "session",
              [workers[w] EXCEPT !.dirty =
                   {m \in @ : m.table_name # SessionNames[k]}
                   \cup {[table_name |-> SessionNames[k], date |-> Now]}], db)

\* session.delete(row) on the persistent row of SessionNames[k]
Delete(w, k) ==
    /\ Persistent(SessionNames[k])
    /\ Called("delete", w, k, "session", session_delete(workers[w], SessionNames[k]), db)

Commit(w) ==
    LET c == session_commit(workers[w], db)
    IN Called("commit", w, 0, c.to, c.s, c.store)

Rollback(w) ==
    LET c == session_rollback(workers[w], db)
    IN Called("rollback", w, 0, c.to, c.s, c.store)

NextDelete ==
    \E w \in 1..Len(workers) :
        \/ \E k \in 1..Len(SessionNames) :
              \/ Add(w, k)
              \/ Modify(w, k)
              \/ Delete(w, k)
        \/ Commit(w)
        \/ Rollback(w)

SpecDelete == InitDelete /\ [][NextDelete]_vars

\* C29: commit() reaches the manager exactly when the session holds a new
\* or a dirty object and is a no-op otherwise; with deletions as the only
\* pending change the deleted rows stay in the database and stay pending;
\* rollback() is always forwarded to the manager.
C29_CommitOnlyNewOrDirty ==
    [][\A w \in 1..Len(workers) :
          /\ op'.name = "commit" /\ op'.self = w =>
                LET holds == workers[w].new.modification # {} \/ workers[w].new.rules # {}
                             \/ workers[w].dirty # {}
                IN /\ op'.value = "manager" <=> holds
                   /\ ~holds => /\ op'.value = "nobody"
                                /\ db' = db
                                /\ workers' = workers
                                /\ \A n \in workers[w].deleted : \E m \in db'.modification :
                                       m.table_name = n
          /\ op'.name = "rollback" /\ op'.self = w => op'.value = "manager"]_vars

\* commit() was called with a deletion as the only pending change
C29_Witness ==
    /\ op.name = "commit"
    /\ op.value = "nobody"
    /\ workers[op.self].deleted # {}
    /\ \A n \in workers[op.self].deleted : \E m \in db.modification : m.table_name = n

-----------------------------------------------------------------------------
(* The entries of files and tables, and the tool a rule is bound to.       *)

\* the values of the entries of the 'files' (or 'tables') mappings under
\* the input and the output of a rule block
EntriesOf(key, kind) ==
    UNION {UNION {{e[2] : e \in Range(io[2].kv[j][2].kv)} :
                     j \in {j \in 1..Len(io[2].kv) : /\ IsWord(io[2].kv[j][1], {kind})
                                                      /\ io[2].kv[j][2].t = "map"}} :
              io \in {e \in (IF BodyOf(key).t = "map" THEN Range(BodyOf(key).kv) ELSE {}) :
                         IsWord(e[1], {"input", "output"}) /\ e[2].t = "map"}}

\* C27: the grammar validator rejects with the grammar-violation error every
\* document with a files entry whose path is not a string or a tables
\* entry whose model identifier is not a string.
C27_EntriesAreStrings ==
    (GrammarRan /\ RawTree(doc.blocks).t = "map"
       /\ \E i \in 1..Len(TopKeys) :
             \E v \in EntriesOf(TopKeys[i], "files") \cup EntriesOf(TopKeys[i], "tables") :
                 v.t # "str")
        => loadResult.kind = "GrammarViolation"

\* the value of the tool key of the i-th rule block
ToolOf(i) == Get(BodyOf(TopKeys[i]), Str("tool"))

\* C28: for every definition the grammar validator accepts, the tool read()
\* resolves for a rule is the value of the tool key of that rule, whatever
\* the order of the keys and the values of the other keys: each entity
\* bound is of the tool of its block, and a tool that is not found is the
\* tool of a block.
C28_ToolIsToolKey ==
    (phase = "read" /\ loadResult.kind = "ok")
        => /\ \A i \in 1..Len(set_wrapper) : set_wrapper[i].toolwrapper = ToolOf(i).v
           /\ readResult.kind = "ToolNotFound"
                => \E i \in 1..Len(TopKeys) : readResult.line = ToolOf(i).v

\* what the i-th rule block declares under 'files' (or 'tables'): the
\* name of each entry, the role it is declared with, and its value
Declared(i, kind) ==
    UNION {UNION {{<<e[1].v, io[1].v, e[2]>> : e \in Range(k[2].kv)} :
                     k \in {k \in Range(io[2].kv) : IsWord(k[1], {kind}) /\ k[2].t = "map"}} :
              io \in {e \in (IF BodyOf(TopKeys[i]).t = "map"
                             THEN Range(BodyOf(TopKeys[i]).kv) ELSE {}) :
                         IsWord(e[1], {"input", "output"}) /\ e[2].t = "map"}}

\* the options the i-th rule block declares under 'params'
DeclaredParams(i) ==
    UNION {{Option(e[1].v, e[2]) : e \in Range(p[2].kv)} :
              p \in {e \in (IF BodyOf(TopKeys[i]).t = "map"
                            THEN Range(BodyOf(TopKeys[i]).kv) ELSE {}) :
                        IsWord(e[1], {"params"}) /\ e[2].t = "map"}}

\* C21: when read() succeeds it has bound exactly one rule entity per rule
\* block, in the name of the block; each entity carries exactly the input
\* and output files, the tables and the options of its own block, each
\* descriptor once and with one role, that of its declaration; so nothing a
\* block declares is found on the entity of another block.
C21_OneEntityPerBlock ==
    (phase = "read" /\ readResult.kind = "ok")
        => /\ Len(set_wrapper) = Len(TopKeys)
           /\ \A i \in 1..Len(set_wrapper) :
                 LET r == set_wrapper[i]
                 IN /\ r.name = str_rule_name(TopKeys[i].p)
                    /\ {<<f.name, f.type, f.path>> : f \in Range(r.files)}
                          = {<<d[1], d[2], Abspath(Join(Directory, d[3].p))>> :
                                d \in Declared(i, "files")}
                    /\ Len(r.files) = Cardinality(Declared(i, "files"))
                    /\ {<<t.tablename, t.type, t.model>> : t \in Range(r.tables)}
                          = {<<d[1], d[2], ModelId(d[3])>> : d \in Declared(i, "tables")}
                    /\ Len(r.tables) = Cardinality(Declared(i, "tables"))
                    /\ Range(r.options) = DeclaredParams(i)
                    /\ Len(r.options) = Cardinality(DeclaredParams(i))
                    /\ \A f \in Range(r.files) : f.type \in {"input", "output"}
                    /\ \A t \in Range(r.tables) : t.type \in {"input", "output"}

\* two rule blocks were bound: one with files, one with a table
C21_Witness ==
    /\ phase = "read"
    /\ readResult.kind = "ok"
    /\ Len(set_wrapper) = 2
    /\ Len(set_wrapper[1].files) = 3
    /\ set_wrapper[1].tables = <<>>
    /\ set_wrapper[2].files = <<>>
    /\ Len(set_wrapper[2].tables) = 1

-----------------------------------------------------------------------------
(* The scheduler over a workflow of three bound rules and a pool of one or *)
(* two workers.  The predecessors of a rule are those it follows.  The     *)
(* scheduler writes started_at, finished_at, time and status on the rule   *)
(* at the steps of its algorithm; its clock may or may not advance         *)
(* between two events.                                                     *)

Step(name, files) == Bound(name, Example, files, <<>>, <<>>)
In(path) == File("input1", BoundPath(path.p), "input")
Out(path) == File("output1", BoundPath(path.p), "output")

\* a fork a -> b, a -> c; a chain a -> b -> c, also declared from its end; a
\* table written by a and read by b under another name, beside a free rule
Workflows ==
    { <<Step(<<"a">>, <<Out(P1)>>), Step(<<"b">>, <<In(P1), Out(P2)>>),
        Step(<<"c">>, <<In(P1), Out(P3)>>)>>,
      <<Step(<<"a">>, <<Out(P1)>>), Step(<<"b">>, <<In(P1), Out(P2)>>),
        Step(<<"c">>, <<In(P2)>>)>>,
      <<Step(<<"c">>, <<In(P2)>>), Step(<<"b">>, <<In(P1), Out(P2)>>),
        Step(<<"a">>, <<Out(P1)>>)>>,
      <<Bound(<<"a">>, Example, <<>>, <<Table("FooBase", "FooBase", "output")>>, <<>>),
        Bound(<<"b">>, Example, <<>>, <<Table("FooBase2", "FooBase", "input")>>, <<>>),
        Step(<<"c">>, <<In(P3)>>)>> }

Idle == [rule |-> 0]

\* step 1: the predecessors of rule i
Predecessors(rs, i) == {j \in 1..Len(rs) : j # i /\ follows(rs[i], rs[j])}

InQueue(s) == {s.ready_queue[k] : k \in 1..Len(s.ready_queue)}

\* step 3: the rules that enter the ready queue, in the order of the workflow
enter_ready_queue(rs, s) ==
    [s EXCEPT !.ready_queue =
        @ \o SelectSeq([i \in 1..Len(rs) |-> i],
                       LAMBDA i : /\ i \notin InQueue(s) \cup s.running \cup s.completed \cup s.failed
                                  /\ Predecessors(rs, i) \subseteq s.completed)]

\* step 6: the rules that never became ready are marked NOT_PLANNED
mark_not_planned(rs, s) ==
    [i \in 1..Len(rs) |-> IF i \notin s.completed \cup s.failed
                          THEN [rs[i] EXCEPT !.status = "NOT_PLANNED"] ELSE rs[i]]

\* step 5b: each output table of the rule has its ledger row bumped to now
bump_outputs(store, r) ==
    LET outs == {t.tablename : t \in Range(Select(r.tables, "output"))}
    IN [store EXCEPT !.modification =
           {m \in @ : m.table_name \notin outs} \cup {[table_name |-> n, date |-> Now] : n \in outs}]

InitSched ==
    /\ ReaderIdle
    /\ rules \in Workflows
    /\ db = [rules |-> {}, modification |-> {[table_name |-> "FooBase", date |-> Now - 1]}]
    /\ mtime = <<>>
    /\ fsize = <<>>
    /\ content = {}
    /\ workers \in {<<Idle>>, <<Idle, Idle>>}
    /\ lock = 0
    /\ dry_run = FALSE
    /\ scheduler = NoScheduler
    /\ op = NoOp

Sched(name, r, w) ==
    /\ op' = Done(name, r, w, Ok, FALSE)
    /\ UNCHANGED <<readerVars, mtime, fsize, content, lock, dry_run>>

\* INIT -> RUNNING: the rules without predecessor are ready
StartScheduler ==
    /\ scheduler.state = "INIT"
    /\ scheduler' = enter_ready_queue(rules, [scheduler EXCEPT !.state = "RUNNING"])
    /\ Sched("start", 0, 0)
    /\ UNCHANGED <<rules, db, workers>>

\* steps 4 and 5: worker w takes the head of the ready queue; a rule found
\* ALREADY_SATISFIED is completed at once, any other is started
Pick(w) ==
    /\ scheduler.state = "RUNNING"
    /\ workers[w].rule = 0
    /\ scheduler.ready_queue # <<>>
    /\ LET r == Head(scheduler.ready_queue)
       IN \E satisfied \in BOOLEAN, tick \in {0, 1} :
             LET now == scheduler.clock + tick
                 s == [scheduler EXCEPT !.clock = now, !.ready_queue = Tail(@)]
             IN /\ IF satisfied
                   THEN /\ rules' = [rules EXCEPT ![r].started_at = now,
                                                  ![r].finished_at = now,
                                                  ![r].time = 0,
                                                  ![r].status = "ALREADY_EXECUTED"]
                        /\ scheduler' = enter_ready_queue(rules,
                                            [s EXCEPT !.completed = @ \cup {r}])
                        /\ UNCHANGED workers
                   ELSE /\ rules' = [rules EXCEPT ![r].started_at = now]
                        /\ scheduler' = [s EXCEPT !.running = @ \cup {r}]
                        /\ workers' = [workers EXCEPT ![w].rule = r]
                /\ Sched("pick", r, w)
    /\ UNCHANGED db

\* step 5b: the callback of the rule of worker w returns
Return(w) ==
    /\ workers[w].rule # 0
    /\ LET r == workers[w].rule
       IN \E tick \in {0, 1} :
             LET now == scheduler.clock + tick
             IN /\ rules' = [rules EXCEPT ![r].finished_at = now,
                                          ![r].time = now - rules[r].started_at,
                                          ![r].status = "EXECUTED"]
                /\ scheduler' = enter_ready_queue(rules,
                                    [scheduler EXCEPT !.clock = now,
                                                      !.running = @ \ {r},
                                                      !.completed = @ \cup {r}])
                /\ db' = bump_outputs(db, rules[r])
                /\ workers' = [workers EXCEPT ![w] = Idle]
                /\ Sched("return", r, w)

\* step 5c: the callback of the rule of worker w fails
Fail(w) ==
    /\ workers[w].rule # 0
    /\ LET r == workers[w].rule
       IN \E tick \in {0, 1} :
             LET now == scheduler.clock + tick
             IN /\ rules' = [rules EXCEPT ![r].finished_at = now,
                                          ![r].time = now - rules[r].started_at,
                                          ![r].status = "EXECUTION_ERROR"]
                /\ scheduler' = [scheduler EXCEPT !.clock = now,
                                                  !.running = @ \ {r},
                                                  !.failed = @ \cup {r}]
                /\ workers' = [workers EXCEPT ![w] = Idle]
                /\ Sched("fail", r, w)
    /\ UNCHANGED db

\* step 6: nothing runs and nothing is ready
Terminate ==
    /\ scheduler.state = "RUNNING"
    /\ scheduler.running = {}
    /\ scheduler.ready_queue = <<>>
    /\ scheduler' = [scheduler EXCEPT !.state = IF scheduler.failed = {} THEN "DONE" ELSE "FAILED"]
    /\ rules' = mark_not_planned(rules, scheduler)
    /\ Sched("terminate", 0, 0)
    /\ UNCHANGED <<db, workers>>

NextSched ==
    \/ StartScheduler
    \/ \E w \in 1..Len(workers) :
          \/ Pick(w)
          \/ Return(w)
          \/ Fail(w)
    \/ Terminate

\* a picked rule is started, a callback returns or fails, and a scheduler
\* with nothing to wait for terminates
SpecSched == InitSched /\ [][NextSched]_vars /\ WF_vars(NextSched)

\* an output of rule j is an input of rule i
Edge(j, i) == j # i /\ (SharesFile(rules[i], rules[j]) \/ SharesTable(rules[i], rules[j]))

\* C22: with one or two workers and in every interleaving, for every edge
\* j -> i a rule i that has started started after j finished:
\* finished_at(j) <= started_at(i).
C22_StartsAfterPredecessors ==
    \A i, j \in 1..Len(rules) :
        (Edge(j, i) /\ rules[i].started_at # Unset)
            => /\ rules[j].finished_at # Unset
               /\ rules[j].finished_at <= rules[i].started_at

\* b and c, both after a, were run by two workers at overlapping times
C22_Witness ==
    /\ scheduler.state = "DONE"
    /\ Len(workers) = 2
    /\ Edge(1, 2) /\ Edge(1, 3) /\ ~Edge(2, 3) /\ ~Edge(3, 2)
    /\ \A i \in 1..3 : rules[i].status = "EXECUTED"
    /\ rules[1].finished_at <= rules[2].started_at
    /\ rules[2].started_at < rules[3].finished_at
    /\ rules[3].started_at < rules[2].finished_at

\* the rules that depend on the rules of set, directly or transitively
RECURSIVE Dependents(_, _)
Dependents(set, n) ==
    IF n = 0 THEN set
    ELSE Dependents(set \cup {i \in 1..Len(rules) : \E j \in set : Edge(j, i)}, n - 1)

DependentsOf(j) == Dependents({j}, Len(rules)) \ {j}

Terminated == scheduler.state \in {"DONE", "FAILED"}

\* C23: a rule whose callback fails has the status EXECUTION_ERROR; the
\* rules that depend on it, directly or transitively, are never started and
\* have the status NOT_PLANNED when the scheduler has terminated; a running
\* rule leaves the running set only by the return or the failure of its own
\* callback; the scheduler that saw a failure terminates FAILED; every run
\* terminates, with every rule in EXECUTED, ALREADY_EXECUTED,
\* EXECUTION_ERROR or NOT_PLANNED.
C23_FailureStopsDependents ==
    /\ [](\A j \in 1..Len(rules) :
             /\ j \in scheduler.failed <=> rules[j].status = "EXECUTION_ERROR"
             /\ j \in scheduler.failed
                  => \A i \in DependentsOf(j) :
                         /\ rules[i].started_at = Unset
                         /\ i \notin scheduler.running \cup scheduler.completed
                         /\ Terminated => rules[i].status = "NOT_PLANNED")
    /\ [](Terminated
            => /\ scheduler.state = "FAILED" <=> scheduler.failed # {}
               /\ \A i \in 1..Len(rules) :
                     rules[i].status \in {"EXECUTED", "ALREADY_EXECUTED",
                                          "EXECUTION_ERROR", "NOT_PLANNED"})
    /\ [][\A r \in scheduler.running :
             \/ r \in scheduler'.running /\ rules'[r] = rules[r]
             \/ /\ op'.name \in {"return", "fail"}
                /\ op'.self = r
                /\ rules'[r].status = IF op'.name = "return" THEN "EXECUTED"
                                                             ELSE "EXECUTION_ERROR"]_vars
    /\ <>Terminated

\* the callback of a failed while the free rule c was running: c ran on to
\* its end, b, which depends on a, was never planned
C23_Witness ==
    /\ scheduler.state = "FAILED"
    /\ Len(workers) = 2
    /\ rules[1].status = "EXECUTION_ERROR"
    /\ rules[2].status = "NOT_PLANNED"
    /\ rules[3].status = "EXECUTED"
    /\ Edge(1, 2)
    /\ rules[1].finished_at < rules[3].finished_at
    /\ rules[3].started_at < rules[1].finished_at

====
